---- MODULE Spec2Model ----
(***************************************************************************)
(* Harmonic companion: chord detection, key tracking, modal context,      *)
(* suggestion engine and progression exporter.                            *)
(*                                                                         *)
(* Representation.  A JavaScript string is modelled by the sequence of    *)
(* its words, i.e. by what split(' ') returns for it: "C Major" is        *)
(* <<"C", "Major">>, "m7b5 (Half-Dim)" is <<"m7b5", "(Half-Dim)">>, the    *)
(* empty string is <<"">>, and a doubled, leading or trailing blank shows *)
(* as an empty word.  join(' ') of the words gives the string back, so    *)
(* string equality is equality of the word sequences.  null is <<>>.      *)
(* Scores of the key tracker are integer numerators over a common         *)
(* denominator, confidences of the modal context are in hundredths, and   *)
(* confidences of the suggestion engine are doubles (see below).          *)
(***************************************************************************)
EXTENDS Integers, Sequences, FiniteSets, TLC

VARIABLES
    activeNotes,    \* detector: the note numbers handed to detectChord
    chord0,         \* detector: label detected for the notes first handed in
    chord,          \* detector: label detected for activeNotes
    recentChords,   \* key tracker: this.recentChords, entries {notes, root}
    accepted,       \* key tracker (history variable): the labels that parsed
                    \* since the last reset, oldest first
    keys,           \* key tracker: what the latest call returned
    chordHistory,   \* modal context: the chord names handed to detectModeFromChords
    modal,          \* modal context: what detectModeFromChords returned
    sugKey,         \* suggestions: the key (lastValidKey)
    sugHistory,     \* suggestions: the chord names played (sourceHistory)
    diatonicSug,    \* suggestions: what suggestDiatonicChords returned
    nextSug,        \* suggestions: what suggestNextChords returned
    baseChord,      \* extensions: the label applyExtension was called on
    extensionType,  \* extensions: the extension it was called with
    transformed,    \* extensions: what applyExtension returned
    progression,    \* exporter: the chord names handed to exportProgressionToMidi
    options,        \* exporter: the options it was called with
    buffer,         \* exporter: the bytes it returned
    scaleSug,       \* engine: what suggestScales returned
    extSug,         \* engine: what suggestExtensions returned
    metadata,       \* engine: what getChordMetadata returned
    intervalSug,    \* engine: what suggestIntervals returned
    vlPrev,         \* engine: the voicing left (prevNotes)
    vlNext,         \* engine: the voicing moved to (nextNotes)
    voiceCost,      \* engine: what calculateVoiceLeadingCost returned
    lockedMode,     \* mode lock: the mode handed to suggestModalNextChords
    lockedTonic,    \* mode lock: the tonic handed to it
    lockedLast,     \* mode lock: the last chord handed to it
    modalSug,       \* mode lock: what suggestModalNextChords returned
    midiNotes,      \* MidiManager: this.activeNotes, in insertion order
    latest,         \* MidiManager (history variable): <<note, kind>> of each note's latest note message
    called,         \* calls (history variable): which functions have returned since their input last changed
    deltaTime,      \* delta-times: the value handed to writeVLQ
    deltaBytes,     \* delta-times: the bytes it returned
    isPlaying,      \* playback: is a progression being played
    activeTimeouts  \* playback: the timers playProgression has scheduled

detVars == <<activeNotes, chord0, chord>>
ktVars == <<recentChords, accepted, keys>>
modeVars == <<chordHistory, modal>>
sugVars == <<sugKey, sugHistory, diatonicSug, nextSug>>
extVars == <<baseChord, extensionType, transformed>>
expVars == <<progression, options, buffer>>

engVars == <<scaleSug, extSug, metadata, intervalSug, vlPrev, vlNext, voiceCost>>

lockVars == <<lockedMode, lockedTonic, lockedLast, modalSug>>

midiVars == <<midiNotes, latest>>

callVars == <<called>>

vlqVars == <<deltaTime, deltaBytes>>

playVars == <<isPlaying, activeTimeouts>>

vars == <<detVars, ktVars, modeVars, sugVars, extVars, expVars, engVars, lockVars, midiVars, callVars, vlqVars, playVars>>

\* the variables of all components but one
notDet == <<ktVars, modeVars, sugVars, extVars, expVars, engVars, lockVars, midiVars, callVars, vlqVars, playVars>>
notKT == <<detVars, modeVars, sugVars, extVars, expVars, engVars, lockVars, midiVars, callVars, vlqVars, playVars>>
notMode == <<detVars, ktVars, sugVars, extVars, expVars, engVars, lockVars, midiVars, callVars, vlqVars, playVars>>
notSug == <<detVars, ktVars, modeVars, extVars, expVars, engVars, lockVars, midiVars, callVars, vlqVars, playVars>>
notExt == <<detVars, ktVars, modeVars, sugVars, expVars, engVars, lockVars, midiVars, callVars, vlqVars, playVars>>
notEng == <<detVars, ktVars, modeVars, sugVars, extVars, expVars, lockVars, midiVars, callVars, vlqVars, playVars>>
notLock == <<detVars, ktVars, modeVars, sugVars, extVars, expVars, engVars, midiVars, callVars, vlqVars, playVars>>
notMidi == <<detVars, ktVars, modeVars, sugVars, extVars, expVars, engVars, lockVars, callVars, vlqVars, playVars>>
notCall == <<detVars, ktVars, modeVars, sugVars, extVars, expVars, engVars, lockVars, midiVars, vlqVars, playVars>>
notVlq == <<detVars, ktVars, modeVars, sugVars, extVars, expVars, engVars, lockVars, midiVars, callVars, playVars>>
notPlay == <<detVars, ktVars, modeVars, sugVars, extVars, expVars, engVars, lockVars, midiVars, callVars, vlqVars>>
notExp == <<detVars, ktVars, modeVars, sugVars, extVars, engVars, lockVars, midiVars, callVars, vlqVars, playVars>>

(***************************************************************************)
(* Bounds of the model.                                                    *)
(***************************************************************************)
MaxNote == 23          \* highest note number the detector inputs use
MaxNotes == 4          \* longest detector input

MaxAdds == 11          \* successful addChord calls between two resets (SpecKT)
MaxKeyAdds == 3        \* successful addChord calls between two resets (SpecKey)

MaxModeHist == 3       \* longest history handed to detectModeFromChords

MaxSugHist == 2        \* longest history handed to suggestNextChords
MaxCadHist == 3        \* longest progression of the cadence specification

MaxStack == 1          \* most modifiers on a label an extension is applied to

MaxProg == 2           \* longest progression handed to the exporter
MaxEmpty == 1          \* most chords held by each component (SpecEmpty)
MaxHeld == 3           \* most notes held at a time (SpecIntervals)
MaxKey == 3            \* highest note number a message carries (SpecMidi)

\* pitch classes the detector inputs are drawn from: C, E, G, A
DetPitchClasses == {0, 4, 7, 9}

\* labels handed to the key tracker in SpecKT: two that parse, and an unknown
\* root, an unknown quality, a bare root, a doubled blank and the empty string
KTLabels == { <<"C", "Major">>, <<"G", "Dom7">>,
              <<"H", "Major">>, <<"C", "Weird">>, <<"C">>, <<"C", "", "Major">>, <<"">> }

\* labels handed to the key tracker in SpecKey
KeyLabels == { <<"C", "Major">>, <<"D", "Minor">>, <<"F", "Major">>, <<"G", "Major">>,
               <<"G", "Dom7">>, <<"D", "Major">> }

\* chord names handed to detectModeFromChords: triads, a seventh chord and a
\* name with an unknown root
ModeLabels == { <<"D", "Minor">>, <<"G", "Major">>, <<"C", "Major">>,
                <<"C", "Minor">>, <<"F", "Major">>, <<"A#", "Major">>,
                <<"G", "Dom7">>, <<"H", "Major">> }

(***************************************************************************)
(* Generic sequence helpers (Array.prototype methods).                     *)
(***************************************************************************)
null == <<>>

(***************************************************************************)
(* The parts of the state a specification does not use stay as they are    *)
(* after construction.                                                     *)
(***************************************************************************)
DetIdle ==
    /\ activeNotes = <<>>
    /\ chord0 = null
    /\ chord = null

KTIdle ==
    /\ recentChords = <<>>
    /\ accepted = <<>>
    /\ keys = <<>>

ModeIdle ==
    /\ chordHistory = <<>>
    /\ modal = null

SugIdle ==
    /\ sugKey = null
    /\ sugHistory = <<>>
    /\ diatonicSug = <<>>
    /\ nextSug = <<>>

ExtIdle ==
    /\ baseChord = null
    /\ extensionType = null
    /\ transformed = null

\* no buffer: nothing has been exported since the progression changed
NoBuffer == <<-1>>

ExpIdle ==
    /\ progression = <<>>
    /\ options = null
    /\ buffer = NoBuffer

EngIdle ==
    /\ scaleSug = <<>>
    /\ extSug = <<>>
    /\ metadata = null
    /\ intervalSug = <<>>
    /\ vlPrev = <<>>
    /\ vlNext = <<>>
    /\ voiceCost = 0

LockIdle ==
    /\ lockedMode = null
    /\ lockedTonic = ""
    /\ lockedLast = null
    /\ modalSug = <<>>

MidiIdle ==
    /\ midiNotes = <<>>
    /\ latest = {}

CallIdle ==
    /\ called = [detect |-> FALSE, detectMode |-> FALSE, export |-> FALSE]

VlqIdle ==
    /\ deltaTime = 0
    /\ deltaBytes = <<>>

PlayIdle ==
    /\ isPlaying = FALSE
    /\ activeTimeouts = <<>>

RECURSIVE InsertAsc(_, _)
InsertAsc(s, x) ==
    IF s = <<>> THEN <<x>>
    ELSE IF x < Head(s) THEN <<x>> \o s
    ELSE <<Head(s)>> \o InsertAsc(Tail(s), x)

\* F applied to the value of e: a LET whose definition is evaluated once
Let(e, F(_)) == CHOOSE r \in {F(x) : x \in {e}} : TRUE

\* arr.sort((a, b) => a - b): stable ascending sort of numbers
RECURSIVE SortAsc(_)
SortAsc(s) ==
    IF s = <<>> THEN <<>>
    ELSE InsertAsc(SortAsc(SubSeq(s, 1, Len(s) - 1)), s[Len(s)])

\* [...new Set(arr)]: first occurrences, in order
RECURSIVE Dedupe(_)
Dedupe(s) ==
    IF s = <<>> THEN <<>>
    ELSE LET init == SubSeq(s, 1, Len(s) - 1)
             d == Dedupe(init)
         IN IF \E i \in 1..Len(init) : init[i] = s[Len(s)] THEN d
            ELSE Append(d, s[Len(s)])

Includes(s, x) == \E i \in 1..Len(s) : s[i] = x

Range(s) == {s[i] : i \in 1..Len(s)}

(***************************************************************************)
(* Pitch utilities and the chord table.                                    *)
(***************************************************************************)
NOTE_NAMES == <<"C", "C#", "D", "D#", "E", "F", "F#", "G", "G#", "A", "A#", "B">>

\* NOTE_NAMES[pc] of the source (0-based)
NoteName(pc) == NOTE_NAMES[pc + 1]

\* NOTE_NAMES.indexOf(name): 0..11, or -1
getNoteNumber(name) ==
    IF \E i \in 1..12 : NOTE_NAMES[i] = name
    THEN (CHOOSE i \in 1..12 : NOTE_NAMES[i] = name) - 1
    ELSE -1

\* The object literal, entries in insertion order: key "0,4,7" is <<0,4,7>>.
CHORD_INTERVALS == <<
    [key |-> <<0, 4, 7>>,      val |-> <<"Major">>],
    [key |-> <<0, 3, 7>>,      val |-> <<"Minor">>],
    [key |-> <<0, 3, 6>>,      val |-> <<"Diminished">>],
    [key |-> <<0, 4, 8>>,      val |-> <<"Augmented">>],
    [key |-> <<0, 4, 7, 12>>,  val |-> <<"Major">>],
    [key |-> <<0, 3, 7, 12>>,  val |-> <<"Minor">>],
    [key |-> <<0, 4, 7, 11>>,  val |-> <<"Maj7">>],
    [key |-> <<0, 4, 7, 10>>,  val |-> <<"Dom7">>],
    [key |-> <<0, 3, 7, 10>>,  val |-> <<"Min7">>],
    [key |-> <<0, 3, 7, 11>>,  val |-> <<"MinMaj7">>],
    [key |-> <<0, 3, 6, 10>>,  val |-> <<"m7b5", "(Half-Dim)">>],
    [key |-> <<0, 3, 6, 9>>,   val |-> <<"Dim7">>],
    [key |-> <<0, 5, 7>>,      val |-> <<"Sus4">>],
    [key |-> <<0, 2, 7>>,      val |-> <<"Sus2">>],
    [key |-> <<0, 5, 7, 10>>,  val |-> <<"7sus4">>],
    [key |-> <<0, 7>>,         val |-> <<"5">>],
    [key |-> <<0, 4, 7, 9>>,   val |-> <<"Maj6">>],
    [key |-> <<0, 3, 7, 9>>,   val |-> <<"Min6">>],
    [key |-> <<0, 4, 7, 14>>,  val |-> <<"Add9">>],
    [key |-> <<0, 3, 7, 14>>,  val |-> <<"mAdd9">>] >>

\* CHORD_INTERVALS[intervals.join(',')] || null
getChordName(intervals) ==
    IF \E i \in 1..Len(CHORD_INTERVALS) : CHORD_INTERVALS[i].key = intervals
    THEN CHORD_INTERVALS[CHOOSE i \in 1..Len(CHORD_INTERVALS) :
                            CHORD_INTERVALS[i].key = intervals].val
    ELSE null

(***************************************************************************)
(* Chord detector.                                                         *)
(***************************************************************************)
\* a mutant: the pitch classes are left in input order
PitchClassesUnsorted(notes) == Dedupe([i \in 1..Len(notes) |-> notes[i] % 12])

\* [...new Set(notes.map(n => n % 12))].sort((a, b) => a - b)
PitchClasses(notes) == SortAsc(Dedupe([i \in 1..Len(notes) |-> notes[i] % 12]))

\* the intervals of the pitch classes relative to root, ascending
IntervalsFrom(pitchClasses, root) ==
    SortAsc([i \in 1..Len(pitchClasses) |->
                IF pitchClasses[i] - root < 0
                THEN pitchClasses[i] - root + 12
                ELSE pitchClasses[i] - root])

\* the loop over candidate roots, from index i on
RECURSIVE DetectFrom(_, _)
DetectFrom(pitchClasses, i) ==
    IF i > Len(pitchClasses) THEN null
    ELSE LET root == pitchClasses[i]
             chordQuality == getChordName(IntervalsFrom(pitchClasses, root))
         IN IF chordQuality # null
            THEN <<NoteName(root)>> \o chordQuality
            ELSE DetectFrom(pitchClasses, i + 1)

\* a mutant: the candidate roots are tried from the highest pitch class down
detectChordFromTop(notes) ==
    IF Len(notes) < 3 THEN null
    ELSE LET pitchClasses == PitchClasses(notes)
         IN DetectFrom([i \in 1..Len(pitchClasses) |->
                           pitchClasses[Len(pitchClasses) - i + 1]], 1)

detectChord(notes) ==
    IF Len(notes) < 3 THEN null
    ELSE DetectFrom(PitchClasses(notes), 1)

(***************************************************************************)
(* Scale table.                                                            *)
(***************************************************************************)
\* The object literal, entries in insertion order.
SCALES == <<
    [name |-> <<"Major">>,                     intervals |-> <<0, 2, 4, 5, 7, 9, 11>>],
    [name |-> <<"Minor">>,                     intervals |-> <<0, 2, 3, 5, 7, 8, 10>>],
    [name |-> <<"Harmonic", "Minor">>,         intervals |-> <<0, 2, 3, 5, 7, 8, 11>>],
    [name |-> <<"Melodic", "Minor">>,          intervals |-> <<0, 2, 3, 5, 7, 9, 11>>],
    [name |-> <<"Ionian">>,                    intervals |-> <<0, 2, 4, 5, 7, 9, 11>>],
    [name |-> <<"Dorian">>,                    intervals |-> <<0, 2, 3, 5, 7, 9, 10>>],
    [name |-> <<"Phrygian">>,                  intervals |-> <<0, 1, 3, 5, 7, 8, 10>>],
    [name |-> <<"Lydian">>,                    intervals |-> <<0, 2, 4, 6, 7, 9, 11>>],
    [name |-> <<"Mixolydian">>,                intervals |-> <<0, 2, 4, 5, 7, 9, 10>>],
    [name |-> <<"Aeolian">>,                   intervals |-> <<0, 2, 3, 5, 7, 8, 10>>],
    [name |-> <<"Locrian">>,                   intervals |-> <<0, 1, 3, 5, 6, 8, 10>>],
    [name |-> <<"Pentatonic", "Major">>,       intervals |-> <<0, 2, 4, 7, 9>>],
    [name |-> <<"Pentatonic", "Minor">>,       intervals |-> <<0, 3, 5, 7, 10>>],
    [name |-> <<"Blues">>,                     intervals |-> <<0, 3, 5, 6, 7, 10>>],
    [name |-> <<"Blues", "Minor">>,            intervals |-> <<0, 3, 5, 6, 7, 10>>],
    [name |-> <<"Blues", "Major">>,            intervals |-> <<0, 2, 3, 4, 7, 9>>],
    [name |-> <<"Double", "Harmonic", "Major">>, intervals |-> <<0, 1, 4, 5, 7, 8, 11>>],
    [name |-> <<"Phrygian", "Dominant">>,      intervals |-> <<0, 1, 4, 5, 7, 8, 10>>],
    [name |-> <<"Hungarian", "Minor">>,        intervals |-> <<0, 2, 3, 6, 7, 8, 11>>],
    [name |-> <<"Whole", "Tone">>,             intervals |-> <<0, 2, 4, 6, 8, 10>>],
    [name |-> <<"Diminished", "HW">>,          intervals |-> <<0, 1, 3, 4, 6, 7, 9, 10>>],
    [name |-> <<"Insen">>,                     intervals |-> <<0, 1, 5, 7, 10>>] >>

\* SCALES[name], or null
ScaleIntervals(name) ==
    IF \E i \in 1..Len(SCALES) : SCALES[i].name = name
    THEN SCALES[CHOOSE i \in 1..Len(SCALES) : SCALES[i].name = name].intervals
    ELSE null

\* the first key of CHORD_INTERVALS whose value is the quality, as numbers;
\* null if there is none (the loop of KeyDetector.addChord, and the engine's
\* getIntervalsForQuality)
getIntervalsForQuality(quality) ==
    IF \E i \in 1..Len(CHORD_INTERVALS) : CHORD_INTERVALS[i].val = quality
    THEN LET first == CHOOSE i \in 1..Len(CHORD_INTERVALS) :
                         /\ CHORD_INTERVALS[i].val = quality
                         /\ \A j \in 1..(i - 1) : CHORD_INTERVALS[j].val # quality
         IN CHORD_INTERVALS[first].key
    ELSE null

(***************************************************************************)
(* Key tracker (class KeyDetector).  An entry's timestamp is written and   *)
(* never read; it is left out.                                             *)
(***************************************************************************)
maxHistory == 10

\* a mutant: the newest entry is dropped when the buffer is full
EvictNewest(pushed) ==
    IF Len(pushed) > maxHistory THEN SubSeq(pushed, 1, Len(pushed) - 1) ELSE pushed

\* if (this.recentChords.length > this.maxHistory) this.recentChords.shift()
Evict(pushed) ==
    IF Len(pushed) > maxHistory THEN Tail(pushed) ELSE pushed

\* addChord(chordName): the new value of this.recentChords
addChord(history, chordName) ==
    IF chordName = null \/ chordName = <<"">> THEN history
    ELSE IF Len(chordName) < 2 THEN history
    ELSE LET rootName == chordName[1]
             qualityName == Tail(chordName)
             rootNote == getNoteNumber(rootName)
             intervals == getIntervalsForQuality(qualityName)
         IN IF rootNote = -1 THEN history
            ELSE IF intervals = null THEN history
            ELSE Evict(Append(history,
                    [notes |-> [i \in 1..Len(intervals) |-> (rootNote + intervals[i]) % 12],
                     root |-> rootNote]))

\* the notes of all history chords, in the order the two loops of detect()
\* visit them: for (chord of recentChords) for (note of chord.notes)
RECURSIVE HistoryNotes(_)
HistoryNotes(history) ==
    IF history = <<>> THEN <<>>
    ELSE HistoryNotes(SubSeq(history, 1, Len(history) - 1)) \o history[Len(history)].notes

\* a mutant: the root bonus goes to every candidate
RootBonusAlways(history, root, totalNotes) == 3 * totalNotes

\* the + 0.15 for a candidate root equal to the last chord's root, over the
\* denominator 20 * totalNotes
RootBonus(history, root, totalNotes) ==
    IF history[Len(history)].root = root THEN 3 * totalNotes ELSE 0

\* a mutant: a pitch class is counted once, however often it occurs
KeyScoreDistinct(history, notes, root, scale) ==
    LET scaleNotes == {(root + scale.intervals[i]) % 12 : i \in 1..Len(scale.intervals)}
        score == Cardinality(Range(notes) \cap scaleNotes)
        totalNotes == Cardinality(Range(notes))
    IN [root |-> NoteName(root),
        scale |-> scale.name,
        score |-> IF totalNotes > 0
                  THEN [num |-> 20 * score + RootBonus(history, root, totalNotes),
                        den |-> 20 * totalNotes]
                  ELSE [num |-> RootBonus(history, root, 1), den |-> 20]]

\* The entry pushed on scores for (root, scale), notes being the notes the
\* loops visit: score counts those in the scale, totalNotes all of them.
\* The entry's score is the exact value of finalScore, num / den.
KeyScore(history, notes, root, scale) ==
    LET scaleNotes == {(root + scale.intervals[i]) % 12 : i \in 1..Len(scale.intervals)}
        score == Cardinality({i \in 1..Len(notes) : notes[i] \in scaleNotes})
        totalNotes == Len(notes)
    IN [root |-> NoteName(root),
        scale |-> scale.name,
        score |-> IF totalNotes > 0
                  THEN [num |-> 20 * score + RootBonus(history, root, totalNotes),
                        den |-> 20 * totalNotes]
                  ELSE [num |-> RootBonus(history, root, 1), den |-> 20]]

\* a.score > b.score
ScoreGreater(a, b) == a.score.num * b.score.den > b.score.num * a.score.den

\* two lists in descending score order merged into one, an entry of the
\* first going before an entry of the second unless its score is lower
RECURSIVE MergeByScore(_, _)
MergeByScore(a, b) ==
    IF a = <<>> THEN b
    ELSE IF b = <<>> THEN a
    ELSE IF ScoreGreater(Head(b), Head(a))
         THEN <<Head(b)>> \o MergeByScore(a, Tail(b))
         ELSE <<Head(a)>> \o MergeByScore(Tail(a), b)

\* scores.sort((a, b) => b.score - a.score).slice(0, k), of entries lo..hi
\* of scores: a stable merge sort that keeps the first k of every run.
\* Entries of equal score stay in the order they were pushed.
RECURSIVE TopByScore(_, _, _, _)
TopByScore(scores, lo, hi, k) ==
    IF lo > hi THEN <<>>
    ELSE IF lo = hi THEN <<scores[lo]>>
    ELSE LET mid == (lo + hi) \div 2
             merged == MergeByScore(TopByScore(scores, lo, mid, k),
                                    TopByScore(scores, mid + 1, hi, k))
         IN IF Len(merged) > k THEN SubSeq(merged, 1, k) ELSE merged

\* detect(): scores in the order pushed, root-major, scales in table order
detect(history) ==
    IF Len(history) = 0 THEN <<>>
    ELSE LET n == Len(SCALES)
             notes == HistoryNotes(history)
             scores == [k \in 1..(12 * n) |->
                          KeyScore(history, notes, (k - 1) \div n, SCALES[((k - 1) % n) + 1])]
         IN TopByScore(scores, 1, 12 * n, 5)

(***************************************************************************)
(* Key tracker specifications: addChord, detect and reset in any order.    *)
(* accepted records what the calls were, independently of recentChords.    *)
(***************************************************************************)
\* the label is "<root> <quality>" with a known root and a known quality
ParsesAsChord(label) ==
    /\ Len(label) >= 2
    /\ label[1] \in Range(NOTE_NAMES)
    /\ \E i \in 1..Len(CHORD_INTERVALS) : CHORD_INTERVALS[i].val = Tail(label)

KTInit ==
    /\ DetIdle
    /\ KTIdle
    /\ ModeIdle
    /\ SugIdle
    /\ ExtIdle
    /\ ExpIdle
    /\ EngIdle
    /\ LockIdle
    /\ MidiIdle
    /\ CallIdle
    /\ VlqIdle
    /\ PlayIdle

AddChord(label, maxAdds) ==
    /\ Len(accepted) < maxAdds
    /\ recentChords' = addChord(recentChords, label)
    /\ accepted' = IF ParsesAsChord(label) THEN Append(accepted, label) ELSE accepted
    /\ keys' = <<>>
    /\ UNCHANGED notKT

Detect ==
    /\ keys' = detect(recentChords)
    /\ UNCHANGED <<recentChords, accepted, notKT>>

Reset ==
    /\ recentChords' = <<>>
    /\ accepted' = <<>>
    /\ keys' = <<>>
    /\ UNCHANGED notKT

KTNext ==
    \/ \E label \in KTLabels : AddChord(label, MaxAdds)
    \/ Detect
    \/ Reset

SpecKT == KTInit /\ [][KTNext]_vars

KeyNext ==
    \/ \E label \in KeyLabels : AddChord(label, MaxKeyAdds)
    \/ Detect
    \/ Reset

SpecKey == KTInit /\ [][KeyNext]_vars

\* what addChord stores for a label that parses: the pitch classes of the
\* quality's intervals on the root, and the root
EntryOf(label) ==
    LET rootNote == getNoteNumber(label[1])
        intervals == getIntervalsForQuality(Tail(label))
    IN [notes |-> [i \in 1..Len(intervals) |-> (rootNote + intervals[i]) % 12],
        root |-> rootNote]

(***************************************************************************)
(* C2: after any sequence of addChord, detect and reset, the history holds *)
(* exactly the most recent min(n, 10) labels that parsed since the last    *)
(* reset, oldest first (n being their number): never more than 10, the     *)
(* oldest evicted first, and a label that does not parse changes nothing.  *)
(***************************************************************************)
ThmC2 ==
    LET n == Len(accepted)
        m == IF n < 10 THEN n ELSE 10
    IN /\ Len(recentChords) = m
       /\ \A i \in 1..m : recentChords[i] = EntryOf(accepted[n - m + i])

\* eleven labels parsed, the first a C Major that is gone from the history,
\* which now starts with the G Dom7 that came second
WitC2 ==
    /\ Len(accepted) = 11
    /\ accepted[1] = <<"C", "Major">>
    /\ accepted[2] = <<"G", "Dom7">>
    /\ Len(recentChords) = 10
    /\ recentChords[1].root = 7

(***************************************************************************)
(* C3: when every pitch class of every history chord lies in the Major     *)
(* scale on R and the most recent chord has root R, the first estimate of  *)
(* detect() is {root R, scale Major}; D Minor, G Major, C Major gives      *)
(* {C, Major}.                                                             *)
(***************************************************************************)
MajorScaleOn(R) == {(R + i) % 12 : i \in {0, 2, 4, 5, 7, 9, 11}}

ThmC3 ==
    (recentChords # <<>> /\ keys # <<>>) =>
        /\ \A R \in 0..11 :
              ( /\ \A c \in 1..Len(recentChords) :
                      Range(recentChords[c].notes) \subseteq MajorScaleOn(R)
                /\ recentChords[Len(recentChords)].root = R )
              => (keys[1].root = NoteName(R) /\ keys[1].scale = <<"Major">>)
        /\ accepted = << <<"D", "Minor">>, <<"G", "Major">>, <<"C", "Major">> >>
              => (keys[1].root = "C" /\ keys[1].scale = <<"Major">>)

\* detect() has answered for the history D Major, G Major: all in G Major
WitC3 ==
    /\ accepted = << <<"D", "Major">>, <<"G", "Major">> >>
    /\ keys # <<>>
    /\ keys[1].root = "G"
    /\ keys[1].scale = <<"Major">>

\* the pitch-class occurrences of the accepted labels: the j-th note of the
\* i-th label, at <<i, j>>
Occurrences ==
    LET places == {<<i, j>> \in (1..Len(accepted)) \X (1..4) :
                      j <= Len(EntryOf(accepted[i]).notes)}
    IN [o \in places |-> EntryOf(accepted[o[1]]).notes[o[2]]]

\* twenty times the claimed score of (R, scale), times the number of
\* occurrences: the occurrences in the scale on R, and the bonus
ClaimedScore(occ, R, scale) ==
    20 * Cardinality({o \in DOMAIN occ : (occ[o] - R + 12) % 12 \in Range(scale.intervals)})
       + (IF getNoteNumber(accepted[Len(accepted)][1]) = R
          THEN 3 * Cardinality(DOMAIN occ) ELSE 0)

\* the claimed scores of all pairs, and of the pair of an estimate
ClaimedScores ==
    Let(Occurrences, LAMBDA occ :
        [R \in 0..11, k \in 1..Len(SCALES) |-> ClaimedScore(occ, R, SCALES[k])])

PairOf(estimate) ==
    <<getNoteNumber(estimate.root),
      CHOOSE k \in 1..Len(SCALES) : SCALES[k].name = estimate.scale>>

MODES == <<"Ionian", "Dorian", "Phrygian", "Lydian", "Mixolydian", "Aeolian", "Locrian">>

\* str.trim().split(/\s+/): the words of the string, blanks dropped
Words(str) == SelectSeq(str, LAMBDA w : w # "")

\* parseChord(str): {root, quality, rootPC}, or null
parseChord(str) ==
    IF str = null THEN null
    ELSE LET parts == Words(str)
         IN IF Len(parts) < 2 THEN null
            ELSE IF getNoteNumber(parts[1]) = -1 THEN null
            ELSE [root |-> parts[1], quality |-> Tail(parts),
                  rootPC |-> getNoteNumber(parts[1])]

\* the sorted [0, third, fifth] of the triad on a degree (0-based) of a scale
TriadIntervals(scaleIntervals, degreeIndex) ==
    LET len == Len(scaleIntervals)
        rootInterval == scaleIntervals[degreeIndex + 1]
        thirdInterval == scaleIntervals[((degreeIndex + 2) % len) + 1]
        fifthInterval == scaleIntervals[((degreeIndex + 4) % len) + 1]
    IN SortAsc(<<0, (thirdInterval - rootInterval + 12) % 12,
                    (fifthInterval - rootInterval + 12) % 12>>)

\* modal-context.js buildTriadOnDegree: {rootPC, quality, name}, or null
modalTriadOnDegree(scaleIntervals, tonicPC, degreeIndex) ==
    IF Len(scaleIntervals) < 7 THEN null
    ELSE LET quality == getChordName(TriadIntervals(scaleIntervals, degreeIndex))
             rootPC == (tonicPC + scaleIntervals[degreeIndex + 1]) % 12
         IN IF quality # null
            THEN [rootPC |-> rootPC, quality |-> quality,
                  name |-> <<NoteName(rootPC)>> \o quality]
            ELSE null

\* arr.filter(Boolean) on parse results
RECURSIVE FilterParsed(_)
FilterParsed(parsed) ==
    IF parsed = <<>> THEN <<>>
    ELSE IF Head(parsed) = null THEN FilterParsed(Tail(parsed))
    ELSE <<Head(parsed)>> \o FilterParsed(Tail(parsed))

\* the triads pushed on diatonicChords for a tonic and a scale
modalDiatonicChords(scaleIntervals, tonicPC) ==
    FilterParsed([d \in 1..7 |-> modalTriadOnDegree(scaleIntervals, tonicPC, d - 1)])

\* score: how many parsed chords match a diatonic chord in root and quality
modalScore(parsedChords, diatonicChords) ==
    Cardinality({c \in 1..Len(parsedChords) :
        \E d \in 1..Len(diatonicChords) :
            /\ diatonicChords[d].rootPC = parsedChords[c].rootPC
            /\ diatonicChords[d].quality = parsedChords[c].quality})

\* diatonicChords of candidate k of the 84 (tonic (k - 1) \div 7, mode
\* MODES[((k - 1) % 7) + 1]); null where the mode has no 7-note scale
ModalDiatonicTable ==
    [k \in 1..(12 * 7) |->
        LET scaleIntervals == ScaleIntervals(<<MODES[((k - 1) % 7) + 1]>>)
        IN IF scaleIntervals = null \/ Len(scaleIntervals) < 7 THEN null
           ELSE modalDiatonicChords(scaleIntervals, (k - 1) \div 7)]

\* Math.round(x * 100) for x = num / den, num >= 0: halves go up
RoundHundredths(num, den) == (200 * num + den) \div (2 * den)

\* a mutant: the first candidate whose score is not 0 is kept to the end
modalStepFirstHit(best, parsedChords, k) ==
    LET score == modalScore(parsedChords, ModalDiatonicTable[k])
        n == Len(parsedChords)
    IN IF best.bestScore <= 0 /\ score > best.bestScore
       THEN [bestScore |-> score,
             bestResult |-> [tonic |-> NoteName((k - 1) \div 7),
                             mode |-> MODES[((k - 1) % 7) + 1],
                             confidence |-> RoundHundredths(score, n)]]
       ELSE best

\* One pass of the inner loop body for candidate k: best is {bestScore,
\* bestResult} before, the value is {bestScore, bestResult} after.
\* bestResult.confidence is in hundredths; the unrounded confidence
\* score / n is compared with it.
modalStep(best, parsedChords, k) ==
    IF ModalDiatonicTable[k] = null THEN best
    ELSE LET score == modalScore(parsedChords, ModalDiatonicTable[k])
             n == Len(parsedChords)
         IN IF \/ score > best.bestScore
               \/ /\ score = best.bestScore
                  /\ best.bestResult # null
                  /\ 100 * score > best.bestResult.confidence * n
            THEN [bestScore |-> score,
                  bestResult |-> [tonic |-> NoteName((k - 1) \div 7),
                                  mode |-> MODES[((k - 1) % 7) + 1],
                                  confidence |-> RoundHundredths(score, n)]]
            ELSE best

\* the two loops over candidates lo..hi of the 84 (tonic-major order, modes
\* in MODES order), starting from best; the range is halved and the first
\* half is evaluated before the second is entered
RECURSIVE modalLoop(_, _, _, _)
modalLoop(best, parsedChords, lo, hi) ==
    IF lo = hi
    THEN modalStep(best, parsedChords, lo)
    ELSE LET mid == (lo + hi) \div 2
             left == modalLoop(best, parsedChords, lo, mid)
         IN IF left.bestScore >= -1
            THEN modalLoop(left, parsedChords, mid + 1, hi)
            ELSE left

\* detectModeFromChords(chordHistory): {tonic, mode, confidence}, or null
detectModeFromChords(history) ==
    IF Len(history) = 0 THEN null
    ELSE LET parsedChords == FilterParsed([i \in 1..Len(history) |-> parseChord(history[i])])
         IN IF Len(parsedChords) = 0 THEN null
            ELSE LET best == modalLoop([bestScore |-> -1, bestResult |-> null],
                                           parsedChords, 1, 12 * 7)
                 IN IF best.bestResult # null /\ best.bestScore > 0
                    THEN best.bestResult
                    ELSE null

(***************************************************************************)
(* Modal context specification: the history grows by one chord name at a   *)
(* time and the mode is detected again.                                    *)
(***************************************************************************)
ModeInit ==
    /\ DetIdle
    /\ KTIdle
    /\ SugIdle
    /\ ExtIdle
    /\ ExpIdle
    /\ EngIdle
    /\ LockIdle
    /\ MidiIdle
    /\ CallIdle
    /\ VlqIdle
    /\ PlayIdle
    /\ chordHistory = <<>>
    /\ modal = detectModeFromChords(<<>>)

PushChord(label) ==
    /\ Len(chordHistory) < MaxModeHist
    /\ chordHistory' = Append(chordHistory, label)
    /\ modal' = detectModeFromChords(chordHistory')
    /\ UNCHANGED notMode

ModeNext == \E label \in ModeLabels : PushChord(label)

SpecMode == ModeInit /\ [][ModeNext]_vars

(***************************************************************************)
(* C4: the (tonic, mode) pair returned is one, among the 12 tonics and 7   *)
(* church modes, whose seven diatonic triads match the largest number of   *)
(* history chords by exact root and quality; D Minor, G Major, C Major     *)
(* gives C Ionian, and C Minor, F Major, A# Major gives C Dorian.          *)
(***************************************************************************)
\* the major scale from its degree r on: the church mode number r + 1
ChurchMode(r) ==
    LET major == <<0, 2, 4, 5, 7, 9, 11>>
    IN [d \in 0..6 |-> (major[((d + r) % 7) + 1] - major[r + 1] + 12) % 12]

ChurchModeNames ==
    <<"Ionian", "Dorian", "Phrygian", "Lydian", "Mixolydian", "Aeolian", "Locrian">>

\* the triads of a church mode on a tonic, as <<root name, quality>>
ChurchTriads(tonic, r) ==
    LET m == ChurchMode(r)
    IN { LET third == (m[(d + 2) % 7] - m[d] + 12) % 12
             fifth == (m[(d + 4) % 7] - m[d] + 12) % 12
         IN <<NoteName((tonic + m[d]) % 12),
              IF third = 4 /\ fifth = 7 THEN "Major"
              ELSE IF third = 3 /\ fifth = 7 THEN "Minor"
              ELSE "Diminished">> : d \in 0..6 }

ChurchTriadTable == [t \in 0..11 |-> [r \in 0..6 |-> ChurchTriads(t, r)]]

\* how many history chords are one of the triads
ChurchMatches(history, tonic, r) ==
    Cardinality({i \in 1..Len(history) : history[i] \in ChurchTriadTable[tonic][r]})

\* the match counts of all 84 (tonic, mode) pairs
ChurchMatchCounts(history) ==
    {ChurchMatches(history, t, r) : t \in 0..11, r \in 0..6}

ThmC4 ==
    /\ modal # null =>
          \E tonic \in 0..11, r \in 0..6 :
              /\ modal.tonic = NoteName(tonic)
              /\ modal.mode = ChurchModeNames[r + 1]
              /\ \A m \in ChurchMatchCounts(chordHistory) :
                    m <= ChurchMatches(chordHistory, tonic, r)
    /\ chordHistory = << <<"D", "Minor">>, <<"G", "Major">>, <<"C", "Major">> >>
          => (modal # null /\ modal.tonic = "C" /\ modal.mode = "Ionian")
    /\ chordHistory = << <<"C", "Minor">>, <<"F", "Major">>, <<"A#", "Major">> >>
          => (modal # null /\ modal.tonic = "C" /\ modal.mode = "Dorian")

(***************************************************************************)
(* C23: the confidence returned by detectModeFromChords is score /         *)
(* historyLength rounded to 2 decimals, score being the number of history  *)
(* chords that match the chosen mode's diatonic triads and historyLength   *)
(* the number of labels in the history that was passed in.                 *)
(***************************************************************************)
CexC23 ==
    modal # null =>
        LET tonic == getNoteNumber(modal.tonic)
            r == (CHOOSE i \in 1..7 : ChurchModeNames[i] = modal.mode) - 1
        IN modal.confidence
              = RoundHundredths(ChurchMatches(chordHistory, tonic, r), Len(chordHistory))

(***************************************************************************)
(* C26: when several (tonic, mode) pairs tie for the highest score,        *)
(* detectModeFromChords returns the one met first in its enumeration       *)
(* (tonics from C upward, and for each tonic the modes in the order        *)
(* Ionian, Dorian, Phrygian, Lydian, Mixolydian, Aeolian, Locrian), for    *)
(* every history length.                                                   *)
(***************************************************************************)
CexC26 ==
    modal # null =>
        LET tonic == getNoteNumber(modal.tonic)
            r == (CHOOSE i \in 1..7 : ChurchModeNames[i] = modal.mode) - 1
            highest == ChurchMatches(chordHistory, tonic, r)
        IN \A t \in 0..11, q \in 0..6 :
              ChurchMatches(chordHistory, t, q) = highest => 7 * tonic + r <= 7 * t + q

\* C Dorian has been returned for C Minor, F Major, A# Major
WitC4 ==
    /\ chordHistory = << <<"C", "Minor">>, <<"F", "Major">>, <<"A#", "Major">> >>
    /\ modal # null
    /\ modal.mode = "Dorian"

(***************************************************************************)
(* Double-precision numbers.  The engine's confidences are IEEE-754        *)
(* doubles built from literals that are multiples of 0.05 by +, - and one  *)
(* product with an integer, all of magnitude below 8.  Such a double is    *)
(* kept exactly as [n, d], standing for (n * 2^57 + d) / (20 * 2^57): n    *)
(* twentieths plus the rounding error d, in units of 2^-57 / 20.  Every    *)
(* operation computes the exact result and rounds it to the nearest        *)
(* double of its binade, ties to even, as the hardware does.               *)
(***************************************************************************)
Pow2 == <<1, 2, 4, 8, 16, 32, 64, 128, 256, 512, 1024, 2048>>

\* 2^57 modulo 5 * 2^a, for a = 1..11: the multiple of 2^a below 5 * 2^a
\* that is 2 modulo 5, as 2^57 is
TwoTo57Mod == <<2, 12, 32, 32, 32, 192, 512, 512, 512, 3072, 8192>>

\* The nearest double to the exact value of [n, d].  For a value that is not
\* negative, j is its binade (ulp = 2^j * 2^-57), and the remainder of the
\* value modulo the ulp is dropped or filled up; a negative value is the
\* mirror image.
RECURSIVE RoundToDouble(_, _)
RoundToDouble(n, d) ==
    IF n < 0 \/ (n = 0 /\ d < 0)
    THEN Let(RoundToDouble(-n, -d), LAMBDA x : [n |-> -x.n, d |-> -x.d])
    ELSE LET atLeast(m) == n > m \/ (n = m /\ d >= 0)    \* value >= m / 20
             j == IF atLeast(80) THEN 7
                  ELSE IF atLeast(40) THEN 6
                  ELSE IF atLeast(20) THEN 5
                  ELSE IF atLeast(10) THEN 4
                  ELSE IF atLeast(5) THEN 3
                  ELSE IF n >= 3 THEN 2
                  ELSE IF n >= 2 THEN 1
                  ELSE 0
         IN Let(j, LAMBDA k :
            Let(20 * Pow2[k + 1], LAMBDA M :
            Let((n * TwoTo57Mod[k + 3] + d) % (2 * M), LAMBDA r2 :
            Let(r2 % M, LAMBDA r :
               IF 2 * r < M \/ (2 * r = M /\ r2 < M)
               THEN [n |-> n, d |-> d - r]
               ELSE [n |-> n, d |-> d - r + M]))))

\* the double of a decimal literal of h hundredths (h a multiple of 5)
Double(h) == RoundToDouble(h \div 5, 0)

DAdd(a, b) == Let(<<a, b>>, LAMBDA p : RoundToDouble(p[1].n + p[2].n, p[1].d + p[2].d))
DSub(a, b) == Let(<<a, b>>, LAMBDA p : RoundToDouble(p[1].n - p[2].n, p[1].d - p[2].d))
\* the product of an integer and a double
DMul(c, a) == Let(a, LAMBDA x : RoundToDouble(c * x.n, c * x.d))
\* a > b, a = b on doubles
DGreater(a, b) == a.n > b.n \/ (a.n = b.n /\ a.d > b.d)

(***************************************************************************)
(* Suggestion engine.                                                      *)
(***************************************************************************)
DEGREE_NAMES == <<"I", "ii", "iii", "IV", "V", "vi", "vii°">>

\* parseChordOrKey(str): {root, quality, rootPC}, or null
parseChordOrKey(str) ==
    IF str = null THEN null
    ELSE LET parts == Words(str)
         IN IF Len(parts) < 2 THEN null
            ELSE IF getNoteNumber(parts[1]) = -1 THEN null
            ELSE [root |-> parts[1], quality |-> Tail(parts),
                  rootPC |-> getNoteNumber(parts[1])]

\* Infinity, the value min starts from: a number above every distance and
\* every sum of distances, which a sum that contains it equals
Infinity == 2147483647

\* a mutant: the distance to the first note of nextNotes
MinDistanceFirst(p, nextNotes) ==
    IF nextNotes = <<>> THEN Infinity
    ELSE IF p >= nextNotes[1] THEN p - nextNotes[1] ELSE nextNotes[1] - p

\* min after nextNotes.forEach(n => min = Math.min(min, Math.abs(p - n)))
MinDistance(p, nextNotes) ==
    LET dist(n) == IF p >= n THEN p - n ELSE n - p
    IN IF nextNotes = <<>> THEN Infinity
       ELSE CHOOSE m \in {dist(nextNotes[j]) : j \in 1..Len(nextNotes)} :
               \A j \in 1..Len(nextNotes) : m <= dist(nextNotes[j])

\* cost += min
AddCost(cost, min) ==
    IF cost = Infinity \/ min = Infinity THEN Infinity ELSE cost + min

RECURSIVE calculateVoiceLeadingCost(_, _)
calculateVoiceLeadingCost(prevNotes, nextNotes) ==
    Let(prevNotes, LAMBDA prev :
        IF prev = <<>> THEN 0
        ELSE AddCost(calculateVoiceLeadingCost(SubSeq(prev, 1, Len(prev) - 1), nextNotes),
                     MinDistance(prev[Len(prev)], nextNotes)))

\* suggestion-engine.js buildTriadOnDegree: {intervals, quality, rootPC}, or null
buildTriadOnDegree(scaleIntervals, degreeIndex) ==
    IF Len(scaleIntervals) < 7 THEN null
    ELSE Let(TriadIntervals(scaleIntervals, degreeIndex), LAMBDA intervals :
            [intervals |-> intervals, quality |-> getChordName(intervals),
             rootPC |-> scaleIntervals[degreeIndex + 1]])

\* a mutant: a sort that is not stable, equal confidences end up reversed
SortByConfidenceUnstable(s) ==
    Let(s, LAMBDA v :
        LET Before(i) == {j \in 1..Len(v) :
                            \/ DGreater(v[j].confidence, v[i].confidence)
                            \/ j > i /\ ~DGreater(v[i].confidence, v[j].confidence)}
        IN Let([i \in 1..Len(v) |-> Cardinality(Before(i))], LAMBDA before :
               [p \in 1..Len(v) |-> v[CHOOSE i \in 1..Len(v) : before[i] = p - 1]]))

\* arr.sort((a, b) => b.confidence - a.confidence): stable, descending.
\* Before(i) are the elements the sort puts in front of the i-th: those of
\* greater confidence and, of those the comparator calls equal, the earlier.
SortByConfidence(s) ==
    Let(s, LAMBDA v :
        LET Before(i) == {j \in 1..Len(v) :
                            \/ DGreater(v[j].confidence, v[i].confidence)
                            \/ j < i /\ ~DGreater(v[i].confidence, v[j].confidence)}
        IN Let([i \in 1..Len(v) |-> Cardinality(Before(i))], LAMBDA before :
               [p \in 1..Len(v) |-> v[CHOOSE i \in 1..Len(v) : before[i] = p - 1]]))

\* confidence of a degree in suggestDiatonicChords
DiatonicConfidence(degree) ==
    IF degree = 4 THEN Double(90)
    ELSE IF degree = 0 THEN Double(100)
    ELSE IF degree \in {0, 3, 4, 5} THEN Double(80)
    ELSE Double(50)

\* a mutant: the current chord is suggested like any other
SuggestDegreeKeepCurrent(parsedKey, scaleIntervals, parsedCurrent, degree) ==
    Let(buildTriadOnDegree(scaleIntervals, degree), LAMBDA triad :
       IF triad = null \/ triad.quality = null THEN <<>>
       ELSE LET absoluteRoot == (parsedKey.rootPC + scaleIntervals[degree + 1]) % 12
            IN << [name |-> <<NoteName(absoluteRoot)>> \o triad.quality,
                   function |-> DEGREE_NAMES[degree + 1],
                   confidence |-> DiatonicConfidence(degree)] >>)

\* one pass of the loop of suggestDiatonicChords: what is pushed for a degree
SuggestDegree(parsedKey, scaleIntervals, parsedCurrent, degree) ==
    Let(buildTriadOnDegree(scaleIntervals, degree), LAMBDA triad :
       IF triad = null \/ triad.quality = null THEN <<>>
       ELSE LET absoluteRoot == (parsedKey.rootPC + scaleIntervals[degree + 1]) % 12
                isCurrent == /\ parsedCurrent # null
                             /\ absoluteRoot = parsedCurrent.rootPC
                             /\ triad.quality = parsedCurrent.quality
            IN IF isCurrent THEN <<>>
               ELSE << [name |-> <<NoteName(absoluteRoot)>> \o triad.quality,
                        function |-> DEGREE_NAMES[degree + 1],
                        confidence |-> DiatonicConfidence(degree)] >>)

\* the concatenation of f[1], ..., f[n]
RECURSIVE Flatten(_)
Flatten(f) ==
    Let(f, LAMBDA g :
        IF g = <<>> THEN <<>>
        ELSE Flatten(SubSeq(g, 1, Len(g) - 1)) \o g[Len(g)])

suggestDiatonicChords(key, currentChord) ==
    Let(parseChordOrKey(key), LAMBDA parsedKey :
       IF parsedKey = null THEN <<>>
       ELSE Let(ScaleIntervals(parsedKey.quality), LAMBDA scaleIntervals :
               IF scaleIntervals = null \/ Len(scaleIntervals) < 7 THEN <<>>
               ELSE Let(parseChordOrKey(currentChord), LAMBDA parsedCurrent :
                       SortByConfidence(Flatten(
                          [d \in 1..7 |-> SuggestDegree(parsedKey, scaleIntervals,
                                                        parsedCurrent, d - 1)])))))

\* getChordMetadata(chordName, octave).midiNotes, or null
getChordMetadata(chordName, octave) ==
    Let(parseChordOrKey(chordName), LAMBDA parsed :
       IF parsed = null THEN null
       ELSE Let(getIntervalsForQuality(parsed.quality), LAMBDA intervals :
               IF intervals = null THEN null
               ELSE LET baseNote == parsed.rootPC + (octave + 1) * 12
                    IN [midiNotes |-> [i \in 1..Len(intervals) |-> baseNote + intervals[i]]]))

MOTION_RULES == <<
    [from |-> 4, to |-> 0, bonus |-> 35],
    [from |-> 3, to |-> 4, bonus |-> 25],
    [from |-> 0, to |-> 3, bonus |-> 20],
    [from |-> 0, to |-> 4, bonus |-> 20],
    [from |-> 5, to |-> 3, bonus |-> 20],
    [from |-> 4, to |-> 5, bonus |-> 15],
    [from |-> 1, to |-> 4, bonus |-> 25],
    [from |-> 0, to |-> 5, bonus |-> 15],
    [from |-> 3, to |-> 0, bonus |-> 30],
    [from |-> 2, to |-> 5, bonus |-> 10],
    [from |-> 5, to |-> 1, bonus |-> 15] >>

\* the score after the motion rules: the bonus of the first rule from
\* lastDegree to degree is added, if there is one
ApplyMotionRules(score, lastDegree, degree) ==
    LET hits == {i \in 1..Len(MOTION_RULES) :
                    MOTION_RULES[i].from = lastDegree /\ MOTION_RULES[i].to = degree}
    IN IF lastDegree >= 0 /\ hits # {}
       THEN DAdd(score, Double(MOTION_RULES[CHOOSE i \in hits : \A j \in hits : i <= j].bonus))
       ELSE score

\* Math.max(0, Math.min(1, score))
Clamp(score) ==
    IF DGreater(Double(0), score) THEN Double(0)
    ELSE IF DGreater(score, Double(100)) THEN Double(100)
    ELSE score

\* score -= 0.1, k times
RECURSIVE RecentPenalty(_, _)
RecentPenalty(score, k) ==
    IF k = 0 THEN score ELSE RecentPenalty(DSub(score, Double(10)), k - 1)

\* the diatonic chord table of suggestNextChords
DiatonicTable(parsedKey, scaleIntervals) ==
    Flatten([d \in 1..7 |->
        Let(buildTriadOnDegree(scaleIntervals, d - 1), LAMBDA triad :
           IF triad = null \/ triad.quality = null THEN <<>>
           ELSE LET absoluteRoot == (parsedKey.rootPC + scaleIntervals[d]) % 12
                IN << [degree |-> d - 1,
                       name |-> <<NoteName(absoluteRoot)>> \o triad.quality,
                       degreeName |-> DEGREE_NAMES[d],
                       rootPC |-> absoluteRoot,
                       quality |-> triad.quality] >>)])

\* arr.slice(-n) for n >= 1
SliceLast(arr, n) ==
    IF Len(arr) <= n THEN arr ELSE SubSeq(arr, Len(arr) - n + 1, Len(arr))

\* does a candidate of the table match a parsed chord
SameChord(candidate, parsed) ==
    /\ parsed # null
    /\ candidate.rootPC = parsed.rootPC
    /\ candidate.quality = parsed.quality

\* the score of a candidate before the voice-leading pass
BaseScore(candidate, lastDegree, parsedLast, recentHistory) ==
    LET base == IF candidate.degree = 0 THEN Double(50)
                ELSE IF candidate.degree = 4 THEN Double(40)
                ELSE IF candidate.degree = 3 THEN Double(35)
                ELSE IF candidate.degree = 5 THEN Double(30)
                ELSE Double(20)
        moved == ApplyMotionRules(base, lastDegree, candidate.degree)
        repeat == IF SameChord(candidate, parsedLast)
                  THEN DSub(moved, Double(35))
                  ELSE moved
        recent == Cardinality({i \in 1..Len(recentHistory) :
                     SameChord(candidate, parseChordOrKey(recentHistory[i]))})
    IN Let(RecentPenalty(repeat, recent), LAMBDA score : Clamp(score))

\* the voice-leading pass on one scored candidate
VoiceLead(s, prevMeta) ==
    Let(getChordMetadata(s.name, 4), LAMBDA nextMeta :
       IF prevMeta # null /\ nextMeta # null
       THEN Let(calculateVoiceLeadingCost(prevMeta.midiNotes, nextMeta.midiNotes),
                LAMBDA cost :
                   [name |-> s.name, function |-> s.function,
                    confidence |-> Clamp(DSub(s.confidence, DMul(cost, Double(5)))),
                    voiceCost |-> cost])
       ELSE s)

\* the candidates of the table, scored and passed through voice leading
ScoreCandidates(diatonic, recentHistory, lastChord, parsedLast) ==
    LET matches == {i \in 1..Len(diatonic) : SameChord(diatonic[i], parsedLast)}
        lastDegree == IF matches # {}
                      THEN diatonic[CHOOSE i \in matches : \A j \in matches : i <= j].degree
                      ELSE -1
    IN Let(lastDegree, LAMBDA last :
       Let(IF parsedLast # null THEN getChordMetadata(lastChord, 4) ELSE null,
           LAMBDA prevMeta :
              [i \in 1..Len(diatonic) |->
                  Let([name |-> diatonic[i].name,
                       function |-> diatonic[i].degreeName,
                       confidence |-> BaseScore(diatonic[i], last, parsedLast,
                                                recentHistory),
                       voiceCost |-> null],
                      LAMBDA scored : VoiceLead(scored, prevMeta))]))

suggestNextChords(history, key, memoryLength) ==
    IF Len(history) = 0 THEN <<>>
    ELSE Let(parseChordOrKey(key), LAMBDA parsedKey :
    IF parsedKey = null THEN <<>>
    ELSE Let(ScaleIntervals(parsedKey.quality), LAMBDA scaleIntervals :
    IF scaleIntervals = null \/ Len(scaleIntervals) < 7 THEN <<>>
    ELSE Let(DiatonicTable(parsedKey, scaleIntervals), LAMBDA diatonic :
    IF Len(diatonic) = 0 THEN <<>>
    ELSE Let(SliceLast(history, memoryLength), LAMBDA recentHistory :
         Let(parseChordOrKey(recentHistory[Len(recentHistory)]), LAMBDA parsedLast :
         Let(SelectSeq(SortByConfidence(
                 ScoreCandidates(diatonic, recentHistory,
                                 recentHistory[Len(recentHistory)], parsedLast)),
                 LAMBDA x : DGreater(x.confidence, Double(0))),
             LAMBDA kept : SubSeq(kept, 1, IF Len(kept) < 5 THEN Len(kept) ELSE 5)))))))

(***************************************************************************)
(* Suggestion specification: a key is fixed, chords are played one at a    *)
(* time, and both suggestion lists are computed again after each.          *)
(***************************************************************************)
\* the scales of the table with seven degrees
SevenDegreeScales == {SCALES[i].name : i \in {j \in 1..Len(SCALES) : Len(SCALES[j].intervals) = 7}}

\* the key roots played in: both ends of the octave and notes between
SugRoots == {"C", "D#", "G", "B"}

SugKeys == {<<root>> \o name : root \in SugRoots, name \in SevenDegreeScales}

\* the chord names played in a key: the triads the engine itself suggests in
\* it, a seventh chord and a name with an unknown root
SugChords(key) ==
    LET all == suggestDiatonicChords(key, null)
    IN {all[i].name : i \in 1..Len(all)} \cup {<<"G", "Dom7">>, <<"H", "Major">>}

progressionMemoryLength == 3

SugInit ==
    /\ DetIdle
    /\ KTIdle
    /\ ModeIdle
    /\ ExtIdle
    /\ ExpIdle
    /\ EngIdle
    /\ LockIdle
    /\ MidiIdle
    /\ CallIdle
    /\ VlqIdle
    /\ PlayIdle
    /\ sugKey \in SugKeys
    /\ sugHistory = <<>>
    /\ diatonicSug = <<>>
    /\ nextSug = suggestNextChords(<<>>, sugKey, progressionMemoryLength)

PlayChord(chordName) ==
    /\ Len(sugHistory) < MaxSugHist
    /\ sugHistory' = Append(sugHistory, chordName)
    /\ diatonicSug' = suggestDiatonicChords(sugKey, chordName)
    /\ nextSug' = suggestNextChords(sugHistory', sugKey, progressionMemoryLength)
    /\ UNCHANGED <<sugKey, notSug>>

SugNext == \E chordName \in SugChords(sugKey) : PlayChord(chordName)

SpecSuggest == SugInit /\ [][SugNext]_vars

\* a key or chord label moved up by n semitones
TransposeLabel(label, n) ==
    <<NoteName((getNoteNumber(label[1]) + n) % 12)>> \o Tail(label)

\* what the claim reads in a suggestion list moved up by n semitones
Transposed(suggestions, n) ==
    [i \in 1..Len(suggestions) |->
        [name |-> TransposeLabel(suggestions[i].name, n),
         function |-> suggestions[i].function,
         confidence |-> suggestions[i].confidence]]

\* the semitone steps keys and histories are moved by
TransposeSteps == {1, 5, 11}

(***************************************************************************)
(* C29: suggestNextChords is transposition-invariant: transposing the key  *)
(* and every chord of the history by the same number of semitones gives    *)
(* the same suggestions transposed by that amount, with the same           *)
(* functions, the same confidences and the same order.                     *)
(***************************************************************************)
CexC29 ==
    (\A i \in 1..Len(sugHistory) : getNoteNumber(sugHistory[i][1]) # -1) =>
        \A n \in TransposeSteps :
            Transposed(suggestNextChords(
                           [i \in 1..Len(sugHistory) |-> TransposeLabel(sugHistory[i], n)],
                           TransposeLabel(sugKey, n), progressionMemoryLength), 0)
              = Transposed(nextSug, n)

\* the triads on the seven degrees of a key's scale, by stacked thirds
KeyTriadNames(key) ==
    LET scale == ScaleIntervals(Tail(key))
        tonic == getNoteNumber(key[1])
    IN { LET third == (scale[((d + 2) % 7) + 1] - scale[d + 1] + 12) % 12
             fifth == (scale[((d + 4) % 7) + 1] - scale[d + 1] + 12) % 12
         IN <<NoteName((tonic + scale[d + 1]) % 12),
              IF third = 4 /\ fifth = 7 THEN "Major"
              ELSE IF third = 3 /\ fifth = 7 THEN "Minor"
              ELSE IF third = 3 /\ fifth = 6 THEN "Diminished"
              ELSE IF third = 4 /\ fifth = 8 THEN "Augmented"
              ELSE "">> : d \in 0..6 }

LastPlayed == sugHistory[Len(sugHistory)]

(***************************************************************************)
(* C5: for a key with a seven-degree scale and a chord c diatonic to it,   *)
(* suggestDiatonicChords(key, c) holds no suggestion named c.              *)
(***************************************************************************)
ThmC5 ==
    (sugHistory # <<>> /\ LastPlayed \in KeyTriadNames(sugKey))
        => \A i \in 1..Len(diatonicSug) : diatonicSug[i].name # LastPlayed

\* G Major was the current chord in C Major and six others were suggested
WitC5 ==
    /\ sugKey = <<"C", "Major">>
    /\ sugHistory # <<>>
    /\ LastPlayed = <<"G", "Major">>
    /\ Len(diatonicSug) = 6
    /\ \E i \in 1..6 : diatonicSug[i].name = <<"C", "Major">>

(***************************************************************************)
(* C10: suggestNextChords never returns the most recent chord of the       *)
(* history among its suggestions, for any history and seven-degree key.    *)
(***************************************************************************)
CexC10 ==
    sugHistory # <<>>
        => \A i \in 1..Len(nextSug) : nextSug[i].name # LastPlayed

(***************************************************************************)
(* Cadence specification: a major key on any of the twelve roots, and a    *)
(* progression of up to MaxCadHist chords drawn from the key's tonic,      *)
(* subdominant and dominant triads and a name with an unknown root.        *)
(***************************************************************************)
CadKeys == {<<NOTE_NAMES[i], "Major">> : i \in 1..12}

\* the major triad a number of semitones above the root of a key
TriadAbove(key, semitones) ==
    <<NoteName((getNoteNumber(key[1]) + semitones) % 12), "Major">>

CadChords(key) ==
    {TriadAbove(key, 0), TriadAbove(key, 5), TriadAbove(key, 7), <<"H", "Major">>}

CadInit ==
    /\ DetIdle
    /\ KTIdle
    /\ ModeIdle
    /\ ExtIdle
    /\ ExpIdle
    /\ EngIdle
    /\ LockIdle
    /\ MidiIdle
    /\ CallIdle
    /\ VlqIdle
    /\ PlayIdle
    /\ sugKey \in CadKeys
    /\ sugHistory = <<>>
    /\ diatonicSug = <<>>
    /\ nextSug = suggestNextChords(<<>>, sugKey, progressionMemoryLength)

\* a chord is appended to the progression and the suggestions are refreshed
ExtendProgression(chordName) ==
    /\ Len(sugHistory) < MaxCadHist
    /\ sugHistory' = Append(sugHistory, chordName)
    /\ diatonicSug' = suggestDiatonicChords(sugKey, chordName)
    /\ nextSug' = suggestNextChords(sugHistory', sugKey, progressionMemoryLength)
    /\ UNCHANGED <<sugKey, notSug>>

CadNext == \E chordName \in CadChords(sugKey) : ExtendProgression(chordName)

SpecCadence == CadInit /\ [][CadNext]_vars

(***************************************************************************)
(* C11: in a major key, when the last chord of the history is the key's    *)
(* dominant triad, the first suggestion of suggestNextChords is the key's  *)
(* tonic triad.                                                            *)
(***************************************************************************)
CexC11 ==
    (sugHistory # <<>> /\ LastPlayed = TriadAbove(sugKey, 7))
        => (nextSug # <<>> /\ nextSug[1].name = TriadAbove(sugKey, 0))

(***************************************************************************)
(* Odd-scale specification: the key names a scale of the table that does   *)
(* not have seven degrees, and chords are played in it.                    *)
(***************************************************************************)
OddKeys ==
    {<<root>> \o SCALES[i].name :
        root \in SugRoots, i \in {j \in 1..Len(SCALES) : Len(SCALES[j].intervals) # 7}}

OddChords == { <<"C", "Diminished">>, <<"G", "Major">>, <<"H", "Major">> }

OddInit ==
    /\ DetIdle
    /\ KTIdle
    /\ ModeIdle
    /\ ExtIdle
    /\ ExpIdle
    /\ EngIdle
    /\ LockIdle
    /\ MidiIdle
    /\ CallIdle
    /\ VlqIdle
    /\ PlayIdle
    /\ sugKey \in OddKeys
    /\ sugHistory = <<>>
    /\ diatonicSug = <<>>
    /\ nextSug = suggestNextChords(<<>>, sugKey, progressionMemoryLength)

OddNext == \E chordName \in OddChords : PlayChord(chordName)

SpecOddScales == OddInit /\ [][OddNext]_vars

(***************************************************************************)
(* C15: suggestDiatonicChords and suggestNextChords return the empty       *)
(* sequence for every key whose scale in the scale table does not have     *)
(* exactly 7 degrees, whether it has fewer or more.                        *)
(***************************************************************************)
CexC15 == sugHistory # <<>> => (diatonicSug = <<>> /\ nextSug = <<>>)

(***************************************************************************)
(* Extensions.                                                             *)
(***************************************************************************)
QUALITY_DEPENDENT_EXTENSIONS ==
    << <<"Maj7">>, <<"min7">>, <<"#11">>, <<"b9">>, <<"b6">> >>

MODAL_STACK_EXTENSIONS ==
    << <<"add2">>, <<"add4">>, <<"add6">>, <<"add9">>, <<"add11">>, <<"add13">>,
       <<"no3">>, <<"no5">> >>

\* VALID_EXTENSIONS[quality]; undefined is null.  A quality that names a
\* member of Object.prototype yields that member, on which .includes is not
\* a function.
VALID_EXTENSIONS(quality) ==
    IF quality = <<"Major">>
    THEN << <<"Maj7">>, <<"Dom7">>, <<"Maj6">>, <<"Sus4">>, <<"Sus2">>, <<"Add9">>, <<"7sus4">> >>
    ELSE IF quality = <<"Minor">>
    THEN << <<"Min7">>, <<"MinMaj7">>, <<"Min6">>, <<"mAdd9">> >>
    ELSE IF quality = <<"Diminished">>
    THEN << <<"m7b5", "(Half-Dim)">>, <<"Dim7">> >>
    ELSE IF quality = <<"Augmented">>
    THEN <<>>
    ELSE null

OBJECT_PROTOTYPE ==
    { <<"constructor">>, <<"hasOwnProperty">>, <<"isPrototypeOf">>,
      <<"propertyIsEnumerable">>, <<"toLocaleString">>, <<"toString">>,
      <<"valueOf">>, <<"__proto__">>, <<"__defineGetter__">>,
      <<"__defineSetter__">>, <<"__lookupGetter__">>, <<"__lookupSetter__">> }

\* the outcome of a call that throws
TypeError == <<"TypeError:", "allowed.includes", "is", "not", "a", "function">>

knownQualities ==
    << <<"Maj7">>, <<"Dom7">>, <<"Min7">>, <<"MinMaj7">>, <<"m7b5", "(Half-Dim)">>,
       <<"Dim7">>, <<"Sus4">>, <<"Sus2">>, <<"7sus4">>, <<"Maj6">>, <<"Min6">>,
       <<"Add9">>, <<"mAdd9">>, <<"Major">>, <<"Minor">>, <<"Diminished">>,
       <<"Augmented">>, <<"5">> >>

\* the intervals applyExtension finds for a quality: those of the quality,
\* or those of its first word if the other words are all stack modifiers
ExtensionIntervals(quality) ==
    LET direct == getIntervalsForQuality(quality)
    IN IF direct = null /\ Len(quality) > 1
       THEN LET intervals == getIntervalsForQuality(<<quality[1]>>)
            IN IF /\ intervals # null
                  /\ ~ \A i \in 2..Len(quality) :
                          Includes(MODAL_STACK_EXTENSIONS, <<quality[i]>>)
               THEN null
               ELSE intervals
       ELSE direct

\* a mutant: the modifier is appended even if the label has it
StackModifierAgain(parsed, extType) ==
    <<parsed.root>> \o parsed.quality \o extType

\* the label of the modal-stack branch: the modifier is appended unless
\* the quality has it
StackModifier(parsed, extType) ==
    LET modifiers == parsed.quality
    IN IF ~ Includes(modifiers, extType[1])
       THEN <<parsed.root>> \o modifiers \o extType
       ELSE <<parsed.root>> \o modifiers

\* applyExtension(baseChord, extensionType): a label, null or TypeError
applyExtension(base, extType) ==
    LET parsed == parseChordOrKey(base)
    IN IF parsed = null THEN null
       ELSE IF extType = null \/ extType = <<"">> THEN null
       ELSE LET intervals == ExtensionIntervals(parsed.quality)
                hasMinor3rd == IF intervals # null THEN Includes(intervals, 3) ELSE FALSE
                hasMajor3rd == IF intervals # null THEN Includes(intervals, 4) ELSE FALSE
                isModalVoicing == IF intervals # null
                                  THEN ~hasMinor3rd /\ ~hasMajor3rd
                                  ELSE FALSE
                allowed == VALID_EXTENSIONS(parsed.quality)
            IN IF isModalVoicing /\ Includes(QUALITY_DEPENDENT_EXTENSIONS, extType)
               THEN null
               ELSE IF isModalVoicing /\ Includes(MODAL_STACK_EXTENSIONS, extType)
               THEN StackModifier(parsed, extType)
               ELSE IF parsed.quality \in OBJECT_PROTOTYPE
               THEN TypeError
               ELSE IF /\ (allowed = null \/ ~Includes(allowed, extType))
                       /\ ~Includes(knownQualities, extType)
               THEN null
               ELSE <<parsed.root>> \o extType

(***************************************************************************)
(* Extension specification: a slot of the progression holds a label, and   *)
(* extensions are applied to it one after the other; the slot takes the    *)
(* new label when there is one.                                            *)
(***************************************************************************)
ExtBases ==
    { <<"C", "Sus4">>, <<"C", "Sus2">>, <<"D", "7sus4">>, <<"C", "5">>,
      <<"C", "Major">>, <<"A", "Minor">>, <<"B", "Diminished">> }

ExtTypes ==
    { <<"add2">>, <<"add6">>, <<"no5">>, <<"Maj7">>, <<"Dom7">>, <<"Min7">>,
      <<"MinMaj7">>, <<"Dim7">>, <<"#11">>, <<"b9">>, <<"Sus4">>,
      <<"m7b5", "(Half-Dim)">>, <<"Weird">>, <<"">> }

\* the label in the slot after the last call
Slot ==
    IF transformed # null /\ transformed # TypeError THEN transformed ELSE baseChord

ExtInit ==
    /\ DetIdle
    /\ KTIdle
    /\ ModeIdle
    /\ SugIdle
    /\ ExpIdle
    /\ EngIdle
    /\ LockIdle
    /\ MidiIdle
    /\ CallIdle
    /\ VlqIdle
    /\ PlayIdle
    /\ baseChord \in ExtBases
    /\ extensionType = null
    /\ transformed = null

ApplyExtension(extType) ==
    /\ Len(Slot) <= 2 + MaxStack
    /\ baseChord' = Slot
    /\ extensionType' = extType
    /\ transformed' = applyExtension(Slot, extType)
    /\ UNCHANGED notExt

ExtNext == \E extType \in ExtTypes : ApplyExtension(extType)

SpecExt == ExtInit /\ [][ExtNext]_vars

\* a label of a modal voicing: Sus2, Sus4, 7sus4 or 5, bare or with stack
\* modifiers behind it
IsModalLabel(label) ==
    /\ Len(label) >= 2
    /\ label[1] \in Range(NOTE_NAMES)
    /\ label[2] \in {"Sus2", "Sus4", "7sus4", "5"}
    /\ \A i \in 3..Len(label) :
          label[i] \in {"add2", "add4", "add6", "add9", "add11", "add13", "no3", "no5"}

StackTokens == { <<"add2">>, <<"add4">>, <<"add6">>, <<"add9">>, <<"add11">>,
                 <<"add13">>, <<"no3">>, <<"no5">> }

(***************************************************************************)
(* C6: on a modal voicing a stackable modifier the label does not have is  *)
(* appended behind all earlier tokens, and one the label has leaves the    *)
(* label unchanged; add6 on 'C Sus4 add2' gives 'C Sus4 add2 add6'.        *)
(***************************************************************************)
ThmC6 ==
    /\ (IsModalLabel(baseChord) /\ extensionType \in StackTokens) =>
          transformed = IF \E i \in 3..Len(baseChord) : <<baseChord[i]>> = extensionType
                        THEN baseChord
                        ELSE baseChord \o extensionType
    /\ (baseChord = <<"C", "Sus4", "add2">> /\ extensionType = <<"add6">>) =>
          transformed = <<"C", "Sus4", "add2", "add6">>

\* add2 and then add6 have been applied to C Sus4
WitC6 ==
    /\ baseChord = <<"C", "Sus4", "add2">>
    /\ extensionType = <<"add6">>
    /\ transformed = <<"C", "Sus4", "add2", "add6">>

(***************************************************************************)
(* C7: applyExtension returns none whenever the base chord is a modal      *)
(* voicing and the extension is a tonal one: a 7th-chord quality (Maj7,    *)
(* Dom7, Min7, MinMaj7, Dim7) or an altered 9th/11th label.                *)
(***************************************************************************)
CexC7 ==
    ( /\ IsModalLabel(baseChord)
      /\ extensionType \in { <<"Maj7">>, <<"Dom7">>, <<"Min7">>, <<"MinMaj7">>,
                             <<"Dim7">>, <<"b9">>, <<"#11">> } )
        => transformed = null

(***************************************************************************)
(* suggestExtensions.                                                      *)
(***************************************************************************)
\* EXTENSION_MAP[quality] || []; the confidences are in hundredths
EXTENSION_MAP(quality) ==
    IF quality = <<"Major">>
    THEN << [quality |-> <<"Maj7">>, function |-> "add major 7th", confidence |-> 90],
            [quality |-> <<"Dom7">>, function |-> "add dominant 7th", confidence |-> 80],
            [quality |-> <<"Maj6">>, function |-> "add major 6th", confidence |-> 70],
            [quality |-> <<"Sus4">>, function |-> "suspend to 4th", confidence |-> 50],
            [quality |-> <<"Sus2">>, function |-> "suspend to 2nd", confidence |-> 50],
            [quality |-> <<"Add9">>, function |-> "add 9th", confidence |-> 60] >>
    ELSE IF quality = <<"Minor">>
    THEN << [quality |-> <<"Min7">>, function |-> "add minor 7th", confidence |-> 90],
            [quality |-> <<"MinMaj7">>, function |-> "add major 7th", confidence |-> 50],
            [quality |-> <<"Min6">>, function |-> "add major 6th", confidence |-> 60],
            [quality |-> <<"mAdd9">>, function |-> "add 9th", confidence |-> 60] >>
    ELSE IF quality = <<"Diminished">>
    THEN << [quality |-> <<"m7b5", "(Half-Dim)">>, function |-> "add minor 7th",
             confidence |-> 80],
            [quality |-> <<"Dim7">>, function |-> "add diminished 7th", confidence |-> 70] >>
    ELSE <<>>

suggestExtensions(currentChord) ==
    Let(parseChordOrKey(currentChord), LAMBDA parsed :
       IF parsed = null THEN <<>>
       ELSE Let(getIntervalsForQuality(parsed.quality), LAMBDA intervals :
          IF intervals = null THEN <<>>
          ELSE LET extensions == EXTENSION_MAP(parsed.quality)
                   tonal == [i \in 1..Len(extensions) |->
                                [name |-> <<parsed.root>> \o extensions[i].quality,
                                 function |-> extensions[i].function,
                                 confidence |-> Double(extensions[i].confidence)]]
                   isModalVoicing == ~Includes(intervals, 3) /\ ~Includes(intervals, 4)
                   stack == [i \in 1..Len(MODAL_STACK_EXTENSIONS) |->
                                [name |-> MODAL_STACK_EXTENSIONS[i],
                                 function |-> "modal stack: " \o MODAL_STACK_EXTENSIONS[i][1],
                                 confidence |-> Double(60),
                                 quality |-> MODAL_STACK_EXTENSIONS[i]]]
               IN SortByConfidence(tonal \o (IF isModalVoicing THEN stack ELSE <<>>))))

(***************************************************************************)
(* Label specification: one label that does not name a chord or a key is   *)
(* handed to the engine, as the key of the chord suggestions and as the    *)
(* chord of the extension functions.                                       *)
(***************************************************************************)
\* labels with a root outside NOTE_NAMES, or with a quality that names neither
\* a chord of CHORD_INTERVALS nor a scale of SCALES
InvalidLabels ==
    { <<"H", "Major">>, <<"Db", "Major">>, <<"c", "Minor">>, <<"C", "Foo">>,
      <<"C", "major">>, <<"A", "Minor", "b5">>, <<"C", "constructor">>,
      <<"C", "__proto__">> }

LabelChords == { <<"C", "Major">>, <<"G", "Major">>, <<"H", "Major">> }

LabelInit ==
    /\ DetIdle
    /\ KTIdle
    /\ ModeIdle
    /\ ExpIdle
    /\ LockIdle
    /\ MidiIdle
    /\ CallIdle
    /\ VlqIdle
    /\ PlayIdle
    /\ sugKey \in InvalidLabels
    /\ baseChord = sugKey
    /\ sugHistory = <<>>
    /\ diatonicSug = <<>>
    /\ nextSug = <<>>
    /\ extensionType = null
    /\ transformed = null
    /\ scaleSug = <<>>
    /\ extSug = <<>>
    /\ metadata = null
    /\ intervalSug = <<>>
    /\ vlPrev = <<>>
    /\ vlNext = <<>>
    /\ voiceCost = 0

\* a chord is played while the label is the key
PlayInKey(chordName) ==
    /\ Len(sugHistory) < MaxSugHist
    /\ sugHistory' = Append(sugHistory, chordName)
    /\ diatonicSug' = suggestDiatonicChords(sugKey, chordName)
    /\ nextSug' = suggestNextChords(sugHistory', sugKey, progressionMemoryLength)
    /\ UNCHANGED <<sugKey, extVars, engVars, notSug>>

\* the label is looked up as a chord
DescribeChord ==
    /\ extSug' = suggestExtensions(baseChord)
    /\ metadata' = getChordMetadata(baseChord, 4)
    /\ UNCHANGED <<scaleSug, intervalSug, vlPrev, vlNext, voiceCost, sugVars, extVars>>
    /\ UNCHANGED <<detVars, ktVars, modeVars, expVars, lockVars, midiVars, callVars, vlqVars, playVars>>

\* an extension is applied to the label
ExtendLabel(extType) ==
    /\ extensionType' = extType
    /\ transformed' = applyExtension(baseChord, extType)
    /\ UNCHANGED <<baseChord, notExt>>

LabelNext ==
    \/ \E chordName \in LabelChords : PlayInKey(chordName)
    \/ DescribeChord
    \/ \E extType \in ExtTypes : ExtendLabel(extType)

SpecLabels == LabelInit /\ [][LabelNext]_vars

(***************************************************************************)
(* C12: a label whose root is not one of the twelve note names or whose    *)
(* quality is not known never makes an engine function raise: as the key,  *)
(* suggestDiatonicChords and suggestNextChords return the empty sequence;  *)
(* as the chord, suggestExtensions returns the empty sequence and          *)
(* getChordMetadata and applyExtension return none.                        *)
(***************************************************************************)
CexC12 ==
    /\ diatonicSug = <<>>
    /\ nextSug = <<>>
    /\ extSug = <<>>
    /\ metadata = null
    /\ transformed # TypeError
    /\ transformed = null

(***************************************************************************)
(* suggestIntervals.  The name of a suggestion is the sequence of its two  *)
(* words; the result is a chord label, or the dash.                        *)
(***************************************************************************)
INTERVAL_ADDITIONS == <<
    [semitones |-> 3,  label |-> "Minor 3rd",   interval |-> "+3"],
    [semitones |-> 4,  label |-> "Major 3rd",   interval |-> "+4"],
    [semitones |-> 7,  label |-> "Perfect 5th", interval |-> "+7"],
    [semitones |-> 10, label |-> "Minor 7th",   interval |-> "+10"],
    [semitones |-> 11, label |-> "Major 7th",   interval |-> "+11"] >>

\* the result when no chord is predicted: the em dash (U+2014), written with
\* two hyphens
DASH == <<"--">>

\* the chord the notes would form with newNote; the loop over the roots is
\* that of detectChord, run only if there are 3 notes and 3 pitch classes
PredictResult(sorted, newNote) ==
    LET hypothetical == SortAsc(Append(sorted, newNote))
        pitchClasses == PitchClasses(hypothetical)
        found == DetectFrom(pitchClasses, 1)
    IN IF Len(hypothetical) >= 3 /\ Len(pitchClasses) >= 3 /\ found # null
       THEN found
       ELSE DASH

\* is the addition skipped as already active
IntervalSkipped(notes, lowest, newNote) ==
    \/ Includes(notes, newNote)
    \/ Includes(notes, (newNote % 12) + (lowest \div 12) * 12)

suggestIntervals(notes) ==
    IF Len(notes) = 0 \/ Len(notes) >= 3 THEN <<>>
    ELSE Let(SortAsc(notes), LAMBDA sorted :
            LET lowest == sorted[1]
            IN Flatten([i \in 1..Len(INTERVAL_ADDITIONS) |->
                  LET newNote == lowest + INTERVAL_ADDITIONS[i].semitones
                  IN IF IntervalSkipped(notes, lowest, newNote) THEN <<>>
                     ELSE << [name |-> <<"Add", NoteName(newNote % 12)>>,
                              interval |-> INTERVAL_ADDITIONS[i].interval,
                              result |-> PredictResult(sorted, newNote)] >>]))

(***************************************************************************)
(* Interval specification: up to MaxHeld distinct notes are held, in the   *)
(* ascending order getActiveNotes() gives, and the additions are computed  *)
(* again after each change.                                                *)
(***************************************************************************)
HeldInit ==
    /\ DetIdle
    /\ KTIdle
    /\ ModeIdle
    /\ SugIdle
    /\ ExtIdle
    /\ ExpIdle
    /\ LockIdle
    /\ MidiIdle
    /\ CallIdle
    /\ VlqIdle
    /\ PlayIdle
    /\ scaleSug = <<>>
    /\ extSug = <<>>
    /\ metadata = null
    /\ intervalSug = suggestIntervals(<<>>)
    /\ vlPrev = <<>>
    /\ vlNext = <<>>
    /\ voiceCost = 0

HoldNote(n) ==
    /\ Len(activeNotes) < MaxHeld
    /\ ~Includes(activeNotes, n)
    /\ activeNotes' = SortAsc(Append(activeNotes, n))
    /\ intervalSug' = suggestIntervals(activeNotes')
    /\ UNCHANGED <<chord0, chord, scaleSug, extSug, metadata, vlPrev, vlNext, voiceCost>>
    /\ UNCHANGED <<ktVars, modeVars, sugVars, extVars, expVars, lockVars, midiVars, callVars, vlqVars, playVars>>

ReleaseNote(i) ==
    /\ activeNotes' = SubSeq(activeNotes, 1, i - 1) \o SubSeq(activeNotes, i + 1, Len(activeNotes))
    /\ intervalSug' = suggestIntervals(activeNotes')
    /\ UNCHANGED <<chord0, chord, scaleSug, extSug, metadata, vlPrev, vlNext, voiceCost>>
    /\ UNCHANGED <<ktVars, modeVars, sugVars, extVars, expVars, lockVars, midiVars, callVars, vlqVars, playVars>>

HeldNext ==
    \/ \E n \in 0..MaxNote : HoldNote(n)
    \/ \E i \in 1..Len(activeNotes) : ReleaseNote(i)

SpecIntervals == HeldInit /\ [][HeldNext]_vars

(***************************************************************************)
(* C16: suggestIntervals returns the empty sequence unless 1 or 2 notes    *)
(* are active, and with 1 or 2 active notes it never proposes a note whose *)
(* pitch class is that of an active note, whatever the octave of that      *)
(* active note.                                                            *)
(***************************************************************************)
CexC16 ==
    /\ Len(activeNotes) \notin {1, 2} => intervalSug = <<>>
    /\ \A i \in 1..Len(intervalSug) :
          getNoteNumber(intervalSug[i].name[2]) \notin {activeNotes[j] % 12 : j \in 1..Len(activeNotes)}

(***************************************************************************)
(* C24: for every suggestion that suggestIntervals returns, the predicted  *)
(* result is the label detectChord gives for the active notes plus the     *)
(* proposed note, and it is the placeholder exactly when that detection    *)
(* gives none or fewer than 3 notes would result.                          *)
(***************************************************************************)
CexC24 ==
    \A i \in 1..Len(intervalSug) :
        LET addition == CHOOSE a \in Range(INTERVAL_ADDITIONS) :
                            a.interval = intervalSug[i].interval
            detected == detectChord(Append(activeNotes, activeNotes[1] + addition.semitones))
        IN intervalSug[i].result = (IF detected = null THEN DASH ELSE detected)

(***************************************************************************)
(* suggestScales.  The confidences pushed are 0.5, 0.7 or 1 up to the      *)
(* rounding of the sum, far less than half a hundredth; toFixed(2) and     *)
(* parseFloat give the double of the hundredths.                           *)
(***************************************************************************)
\* parseFloat(confidence.toFixed(2)) for a confidence near a multiple of 0.05
ToFixed2(confidence) == Double(5 * confidence.n)

\* what the loop of suggestScales pushes for the i-th scale of the table
ScaleEntry(parsedKey, root, chordPCs, i) ==
    LET scalePCs == {(root + SCALES[i].intervals[k]) % 12 :
                        k \in 1..Len(SCALES[i].intervals)}
        chordFit == Cardinality({k \in 1..Len(chordPCs) : chordPCs[k] \in scalePCs})
        fits == chordFit = Len(chordPCs)
        isParent == parsedKey # null /\ SCALES[i].name = parsedKey.quality
        chordScore == IF Len(chordPCs) > 0 THEN Double(100) ELSE Double(50)
        summed == IF isParent THEN DAdd(chordScore, Double(20)) ELSE chordScore
        confidence == IF DGreater(summed, Double(100)) THEN Double(100) ELSE summed
    IN IF Len(chordPCs) > 0 /\ ~fits THEN <<>>
       ELSE << [name |-> <<NoteName(root)>> \o SCALES[i].name,
                function |-> IF isParent THEN "parent scale" ELSE "compatible",
                confidence |-> ToFixed2(confidence)] >>

suggestScales(key, currentChord) ==
    Let(parseChordOrKey(key), LAMBDA parsedKey :
    Let(parseChordOrKey(currentChord), LAMBDA parsedChord :
       IF parsedKey = null /\ parsedChord = null THEN <<>>
       ELSE LET chordIntervals == IF parsedChord # null
                                  THEN getIntervalsForQuality(parsedChord.quality)
                                  ELSE null
                root == IF parsedKey # null THEN parsedKey.rootPC ELSE parsedChord.rootPC
            IN Let(IF chordIntervals # null
                   THEN [k \in 1..Len(chordIntervals) |->
                            (parsedChord.rootPC + chordIntervals[k]) % 12]
                   ELSE <<>>,
                   LAMBDA chordPCs :
                      SortByConfidence(Flatten(
                         [i \in 1..Len(SCALES) |->
                             ScaleEntry(parsedKey, root, chordPCs, i)])))))

(***************************************************************************)
(* suggestModalNextChords (modal-context.js).  A mode is the sequence of   *)
(* its words, a tonic one note name; "" is no tonic.                       *)
(***************************************************************************)
DEGREE_NAMES_BY_MODE(mode) ==
    IF mode = <<"Ionian">> THEN <<"I", "ii", "iii", "IV", "V", "vi", "vii°">>
    ELSE IF mode = <<"Dorian">> THEN <<"i", "ii", "III", "IV", "v", "vi°", "VII">>
    ELSE IF mode = <<"Phrygian">> THEN <<"i", "II", "III", "iv", "v°", "VI", "vii">>
    ELSE IF mode = <<"Lydian">> THEN <<"I", "II", "iii", "iv°", "V", "vi", "vii">>
    ELSE IF mode = <<"Mixolydian">> THEN <<"I", "ii", "iii°", "IV", "v", "vi", "VII">>
    ELSE IF mode = <<"Aeolian">> THEN <<"i", "ii°", "III", "iv", "v", "VI", "VII">>
    ELSE IF mode = <<"Locrian">> THEN <<"i°", "II", "iii", "iv", "V", "VI", "vii">>
    ELSE <<>>

\* the confidence of a degree before the last chord is looked at, in hundredths
ModalWeight(degree) ==
    IF degree = 3 \/ degree = 4 THEN 70
    ELSE IF degree = 0 THEN 90
    ELSE 50

\* a mutant: the last chord is left out of the list
ModalDegreeSkipLast(mode, scaleIntervals, tonicPC, parsedLast, degree) ==
    Let(modalTriadOnDegree(scaleIntervals, tonicPC, degree), LAMBDA triad :
       IF triad = null THEN <<>>
       ELSE IF /\ parsedLast # null
               /\ triad.rootPC = parsedLast.rootPC
               /\ triad.quality = parsedLast.quality
       THEN <<>>
       ELSE << [name |-> triad.name,
                function |-> IF degree + 1 <= Len(DEGREE_NAMES_BY_MODE(mode))
                             THEN DEGREE_NAMES_BY_MODE(mode)[degree + 1]
                             ELSE "deg" \o ToString(degree + 1),
                confidence |-> Clamp(Double(ModalWeight(degree)))] >>)

\* what the loop of suggestModalNextChords pushes for a degree
ModalDegree(mode, scaleIntervals, tonicPC, parsedLast, degree) ==
    Let(modalTriadOnDegree(scaleIntervals, tonicPC, degree), LAMBDA triad :
       IF triad = null THEN <<>>
       ELSE LET isLast == /\ parsedLast # null
                          /\ triad.rootPC = parsedLast.rootPC
                          /\ triad.quality = parsedLast.quality
                confidence == IF isLast
                              THEN DSub(Double(ModalWeight(degree)), Double(20))
                              ELSE Double(ModalWeight(degree))
            IN << [name |-> triad.name,
                   function |-> IF degree + 1 <= Len(DEGREE_NAMES_BY_MODE(mode))
                                THEN DEGREE_NAMES_BY_MODE(mode)[degree + 1]
                                ELSE "deg" \o ToString(degree + 1),
                   confidence |-> Clamp(confidence)] >>)

suggestModalNextChords(mode, tonic, lastChordLabel) ==
    IF mode = null \/ tonic = "" THEN <<>>
    ELSE Let(ScaleIntervals(mode), LAMBDA scaleIntervals :
       IF scaleIntervals = null \/ Len(scaleIntervals) < 7 THEN <<>>
       ELSE IF getNoteNumber(tonic) = -1 THEN <<>>
       ELSE Let(parseChord(lastChordLabel), LAMBDA parsedLast :
               SortByConfidence(Flatten(
                  [d \in 1..7 |-> ModalDegree(mode, scaleIntervals, getNoteNumber(tonic),
                                              parsedLast, d - 1)]))))

(***************************************************************************)
(* Ranking specification: a key and a locked mode on the key's root are    *)
(* fixed, chords are played, and after each chord the five suggestion      *)
(* lists are computed as the analysis of a detected chord computes them.   *)
(***************************************************************************)
RankKeys == {<<"B">> \o name : name \in SevenDegreeScales}

\* the two triads the key's own list ranks highest, a suspended chord, and
\* a chord whose quality no table knows
RankChords(key) ==
    LET all == suggestDiatonicChords(key, null)
    IN {all[i].name : i \in 1..2} \cup {<<"C", "Sus4">>, <<"C", "Cluster">>}

RankInit ==
    /\ DetIdle
    /\ KTIdle
    /\ ModeIdle
    /\ ExtIdle
    /\ ExpIdle
    /\ EngIdle
    /\ MidiIdle
    /\ CallIdle
    /\ VlqIdle
    /\ PlayIdle
    /\ sugKey \in RankKeys
    /\ sugHistory = <<>>
    /\ diatonicSug = <<>>
    /\ nextSug = <<>>
    /\ lockedMode \in {<<MODES[i]>> : i \in 1..Len(MODES)}
    /\ lockedTonic = sugKey[1]
    /\ lockedLast = null
    /\ modalSug = <<>>

AnalyseChord(chordName) ==
    /\ Len(sugHistory) < MaxSugHist
    /\ sugHistory' = Append(sugHistory, chordName)
    /\ diatonicSug' = suggestDiatonicChords(sugKey, chordName)
    /\ scaleSug' = suggestScales(sugKey, chordName)
    /\ extSug' = suggestExtensions(chordName)
    /\ nextSug' = suggestNextChords(sugHistory', sugKey, progressionMemoryLength)
    /\ lockedLast' = chordName
    /\ modalSug' = suggestModalNextChords(lockedMode, lockedTonic, chordName)
    /\ UNCHANGED <<sugKey, lockedMode, lockedTonic>>
    /\ UNCHANGED <<metadata, intervalSug, vlPrev, vlNext, voiceCost>>
    /\ UNCHANGED <<detVars, ktVars, modeVars, extVars, expVars, midiVars, callVars, vlqVars, playVars>>

RankNext == \E chordName \in RankChords(sugKey) : AnalyseChord(chordName)

SpecRanking == RankInit /\ [][RankNext]_vars

\* the place of x in a sequence
IndexIn(seq, x) == CHOOSE i \in 1..Len(seq) : seq[i] = x

\* the place of a suggestion in the order of generation: its degree, its
\* scale's place in the table, its place in the extension tables
DegreePlace(s) == IndexIn(DEGREE_NAMES, s.function)
ModalPlace(s) == IndexIn(DEGREE_NAMES_BY_MODE(lockedMode), s.function)
ScalePlace(s) == CHOOSE i \in 1..Len(SCALES) : SCALES[i].name = Tail(s.name)
ExtensionPlace(s) ==
    IF "quality" \in DOMAIN s
    THEN 10 + IndexIn(MODAL_STACK_EXTENSIONS, s.name)
    ELSE LET table == EXTENSION_MAP(Tail(LastPlayed))
         IN CHOOSE i \in 1..Len(table) : table[i].quality = Tail(s.name)

\* confidences do not increase along the list, equal confidences stand in
\* the order of generation, and every confidence is in [0, 1]
Ranked(list, Place(_)) ==
    /\ \A i \in 1..(Len(list) - 1) :
          /\ ~DGreater(list[i + 1].confidence, list[i].confidence)
          /\ ~DGreater(list[i].confidence, list[i + 1].confidence)
                => Place(list[i]) < Place(list[i + 1])
    /\ \A i \in 1..Len(list) :
          /\ ~DGreater(Double(0), list[i].confidence)
          /\ ~DGreater(list[i].confidence, Double(100))

(***************************************************************************)
(* C17: every list returned by suggestDiatonicChords, suggestScales,       *)
(* suggestExtensions, suggestNextChords and suggestModalNextChords is in   *)
(* non-increasing confidence order, suggestions of equal confidence keep   *)
(* the order in which they were generated, and every confidence lies in    *)
(* [0, 1].                                                                 *)
(***************************************************************************)
ThmC17 ==
    /\ Ranked(diatonicSug, DegreePlace)
    /\ Ranked(nextSug, DegreePlace)
    /\ Ranked(scaleSug, ScalePlace)
    /\ Ranked(extSug, ExtensionPlace)
    /\ Ranked(modalSug, ModalPlace)

HasTie(list) == \E i \in 1..(Len(list) - 1) : list[i].confidence = list[i + 1].confidence

HasDescent(list) ==
    \E i \in 1..(Len(list) - 1) : DGreater(list[i].confidence, list[i + 1].confidence)

\* after a chord of unknown quality: the parent scale has moved to the front
\* and the other scales stand, all equal, in the order of the table; the
\* lists of chords each hold a tie and a descent
WitC17 ==
    /\ Len(scaleSug) = Len(SCALES)
    /\ DGreater(scaleSug[1].confidence, scaleSug[2].confidence)
    /\ ScalePlace(scaleSug[1]) > 1
    /\ scaleSug[2].confidence = scaleSug[3].confidence
    /\ \A list \in {diatonicSug, nextSug, modalSug} : HasTie(list) /\ HasDescent(list)

\* after a chord of known quality: the list of extensions holds a tie and a
\* descent too
WitC17Extensions ==
    /\ \A list \in {diatonicSug, extSug, modalSug} : HasTie(list) /\ HasDescent(list)
    /\ HasDescent(nextSug)
    /\ HasTie(scaleSug)

(***************************************************************************)
(* Voice-leading specification: the cost of moving from one voicing to     *)
(* another, the voicings growing a note at a time.                         *)
(***************************************************************************)
MaxPitch == 4
MaxVoices == 2
VoiceNotes == 0..MaxPitch

VoiceInit ==
    /\ DetIdle
    /\ KTIdle
    /\ ModeIdle
    /\ SugIdle
    /\ ExtIdle
    /\ ExpIdle
    /\ LockIdle
    /\ MidiIdle
    /\ CallIdle
    /\ VlqIdle
    /\ PlayIdle
    /\ scaleSug = <<>>
    /\ extSug = <<>>
    /\ metadata = null
    /\ intervalSug = <<>>
    /\ vlPrev = <<>>
    /\ vlNext = <<>>
    /\ voiceCost = calculateVoiceLeadingCost(<<>>, <<>>)

\* the cost from a voicing with one more note
VoiceFrom(p) ==
    /\ Len(vlPrev) < MaxVoices
    /\ vlPrev' = Append(vlPrev, p)
    /\ voiceCost' = calculateVoiceLeadingCost(vlPrev', vlNext)
    /\ UNCHANGED <<vlNext, scaleSug, extSug, metadata, intervalSug>>
    /\ UNCHANGED notEng

\* the cost to a voicing with one more note
VoiceTo(n) ==
    /\ Len(vlNext) < MaxVoices
    /\ vlNext' = Append(vlNext, n)
    /\ voiceCost' = calculateVoiceLeadingCost(vlPrev, vlNext')
    /\ UNCHANGED <<vlPrev, scaleSug, extSug, metadata, intervalSug>>
    /\ UNCHANGED notEng

VoiceNext ==
    \/ \E p \in VoiceNotes : VoiceFrom(p)
    \/ \E n \in VoiceNotes : VoiceTo(n)

SpecVoice == VoiceInit /\ [][VoiceNext]_vars

\* |a - b|
Distance(a, b) == IF a >= b THEN a - b ELSE b - a

\* the steps k that the i-th note of prev has to take at least, whichever
\* note of next it moves to: as many as its smallest distance
Steps(prev, next) ==
    {<<i, k>> \in (1..Len(prev)) \X (1..MaxPitch) :
        \A j \in 1..Len(next) : k <= Distance(prev[i], next[j])}

(***************************************************************************)
(* C18: calculateVoiceLeadingCost(prev, next) is the sum, over the notes   *)
(* of prev, of the smallest absolute distance to a note of next (with no   *)
(* note in next to move to, that is Infinity); it is never negative and    *)
(* it is 0 when prev and next are the same voicing.  That swapping the     *)
(* arguments can change the value is shown by the witness.                 *)
(***************************************************************************)
ThmC18 ==
    /\ (vlNext # <<>> \/ vlPrev = <<>>) => voiceCost = Cardinality(Steps(vlPrev, vlNext))
    /\ (vlNext = <<>> /\ vlPrev # <<>>) => voiceCost = Infinity
    /\ voiceCost >= 0
    /\ vlPrev = vlNext => voiceCost = 0

\* two voicings of two notes, neither note of prev in next, whose cost
\* changes when the arguments are swapped
WitC18 ==
    /\ Len(vlPrev) = 2
    /\ Len(vlNext) = 2
    /\ Range(vlPrev) \cap Range(vlNext) = {}
    /\ voiceCost > 0
    /\ voiceCost # calculateVoiceLeadingCost(vlNext, vlPrev)

(***************************************************************************)
(* Mode-lock specification: a church mode and a tonic are locked, and      *)
(* after each chord the modal suggestions are computed for them.           *)
(***************************************************************************)
\* the triads of the locked mode, a seventh chord on the tonic, a suspended
\* chord, and no chord
LockLabels(mode, tonic) ==
    {modalTriadOnDegree(ScaleIntervals(mode), getNoteNumber(tonic), d).name : d \in 0..6}
        \cup {<<tonic, "Major", "7">>, <<"C", "Sus4">>, null}

LockInit ==
    /\ DetIdle
    /\ KTIdle
    /\ ModeIdle
    /\ SugIdle
    /\ ExtIdle
    /\ ExpIdle
    /\ EngIdle
    /\ MidiIdle
    /\ CallIdle
    /\ VlqIdle
    /\ PlayIdle
    /\ lockedMode \in {<<MODES[i]>> : i \in 1..Len(MODES)}
    /\ lockedTonic \in Range(NOTE_NAMES)
    /\ lockedLast = null
    /\ modalSug = <<>>

SuggestInMode(lastChordLabel) ==
    /\ lockedLast' = lastChordLabel
    /\ modalSug' = suggestModalNextChords(lockedMode, lockedTonic, lastChordLabel)
    /\ UNCHANGED <<lockedMode, lockedTonic>>
    /\ UNCHANGED notLock

LockNext ==
    \E lastChordLabel \in LockLabels(lockedMode, lockedTonic) : SuggestInMode(lastChordLabel)

SpecLock == LockInit /\ [][LockNext]_vars

\* 0.9 for degree 0, 0.7 for degrees 3 and 4, 0.5 for the others
DegreeWeight(degree) ==
    CASE degree = 0 -> Double(90)
      [] degree \in {3, 4} -> Double(70)
      [] OTHER -> Double(50)

(***************************************************************************)
(* C19: for each of the 7 church modes and each of the 12 tonics,          *)
(* suggestModalNextChords returns exactly 7 suggestions, one per scale     *)
(* degree, with confidence 0.9 for degree 0, 0.7 for degrees 3 and 4 and   *)
(* 0.5 for the others, less 0.2 for the suggestion whose name equals       *)
(* lastChordLabel, which stays in the list.                                *)
(***************************************************************************)
ThmC19 ==
    (modalSug # <<>> \/ lockedLast # null) =>
        /\ Len(modalSug) = 7
        /\ \A degree \in 0..6 :
              \E i \in 1..7 :
                 /\ modalSug[i].function = DEGREE_NAMES_BY_MODE(lockedMode)[degree + 1]
                 /\ NOTE_NAMES[((getNoteNumber(lockedTonic)
                                  + ScaleIntervals(lockedMode)[degree + 1]) % 12) + 1]
                       = modalSug[i].name[1]
                 /\ modalSug[i].confidence =
                       IF modalSug[i].name = lockedLast
                       THEN DSub(DegreeWeight(degree), Double(20))
                       ELSE DegreeWeight(degree)
        /\ \A i, j \in 1..7 : modalSug[i].function = modalSug[j].function => i = j

\* the last chord is a triad of the mode: it is in the list, 0.2 down
WitC19 ==
    /\ lockedLast # null
    /\ \E i \in 1..Len(modalSug) :
          /\ modalSug[i].name = lockedLast
          /\ \E degree \in {0, 3, 5} :
                /\ modalSug[i].function = DEGREE_NAMES_BY_MODE(lockedMode)[degree + 1]
                /\ modalSug[i].confidence = DSub(DegreeWeight(degree), Double(20))
                /\ DGreater(DegreeWeight(degree), modalSug[i].confidence)

(***************************************************************************)
(* MidiManager: the set of active notes, a JavaScript Set, is the sequence *)
(* of its elements in insertion order.                                     *)
(***************************************************************************)
\* status & 0xF0, for a status byte
Command(status) == status - (status % 16)

\* a mutant: a note-on with velocity 0 is not taken for a note-off
activeNotesAfterStrict(notes, status, data1, data2) ==
    IF Command(status) = 144 /\ data2 > 0
    THEN IF Includes(notes, data1) THEN notes ELSE Append(notes, data1)
    ELSE IF Command(status) = 128
    THEN SelectSeq(notes, LAMBDA n : n # data1)
    ELSE notes

\* this.activeNotes after handleMidiMessage({data: [status, data1, data2]})
activeNotesAfter(notes, status, data1, data2) ==
    IF Command(status) = 144 /\ data2 > 0
    THEN IF Includes(notes, data1) THEN notes ELSE Append(notes, data1)
    ELSE IF Command(status) = 128 \/ (Command(status) = 144 /\ data2 = 0)
    THEN SelectSeq(notes, LAMBDA n : n # data1)
    ELSE notes

getActiveNotes(notes) == SortAsc(notes)

\* note-off and note-on on the first and the last channel, and polyphonic
\* key pressure, whose first data byte is a note number too
MidiStatuses == {128, 143, 144, 159, 160}
MidiKeys == 0..MaxKey
MidiVelocities == {0, 1, 127}

MidiInit ==
    /\ DetIdle
    /\ KTIdle
    /\ ModeIdle
    /\ SugIdle
    /\ ExtIdle
    /\ ExpIdle
    /\ EngIdle
    /\ LockIdle
    /\ CallIdle
    /\ VlqIdle
    /\ PlayIdle
    /\ midiNotes = <<>>
    /\ latest = {}

\* what a message is by the MIDI standard: the high nibble of its status
\* is 9 for a note-on and 8 for a note-off
MessageKind(status, data2) ==
    IF status \div 16 = 9 THEN (IF data2 > 0 THEN "on" ELSE "on at velocity 0")
    ELSE IF status \div 16 = 8 THEN "off"
    ELSE "other"

handleMidiMessage(status, data1, data2) ==
    /\ midiNotes' = activeNotesAfter(midiNotes, status, data1, data2)
    /\ latest' = IF MessageKind(status, data2) = "other" THEN latest
                 ELSE {m \in latest : m[1] # data1}
                         \cup {<<data1, MessageKind(status, data2)>>}
    /\ UNCHANGED notMidi

MidiNext ==
    \E status \in MidiStatuses, data1 \in MidiKeys, data2 \in MidiVelocities :
        handleMidiMessage(status, data1, data2)

SpecMidi == MidiInit /\ [][MidiNext]_vars

(***************************************************************************)
(* C20: after any sequence of incoming MIDI messages, the active-note set  *)
(* holds exactly the note numbers whose most recent note message was a     *)
(* note-on with velocity > 0 (a note-on with velocity 0 counts as a        *)
(* note-off), and getActiveNotes() returns them in ascending order.        *)
(***************************************************************************)
ThmC20 ==
    /\ Range(midiNotes) = {m[1] : m \in {k \in latest : k[2] = "on"}}
    /\ Range(getActiveNotes(midiNotes)) = Range(midiNotes)
    /\ Len(getActiveNotes(midiNotes)) = Cardinality(Range(midiNotes))
    /\ \A i \in 1..(Len(midiNotes) - 1) :
          getActiveNotes(midiNotes)[i] < getActiveNotes(midiNotes)[i + 1]

\* two notes are on, the higher one pressed first, after a note went off by
\* a note-on at velocity 0 and another by a note-off
WitC20 ==
    /\ Len(midiNotes) = 2
    /\ midiNotes[1] > midiNotes[2]
    /\ \E m \in latest : m[2] = "on at velocity 0"
    /\ \E m \in latest : m[2] = "off"

(***************************************************************************)
(* Progression exporter.  A buffer is the sequence of its bytes.  On the   *)
(* values that occur, x & 0x7F is x % 128, x >> 7 is x \div 128 and        *)
(* x | 0x80 is x + 128.  A voicing style, like a register, is only ever    *)
(* compared, and is kept as one string.                                    *)
(***************************************************************************)
TICKS_PER_BEAT == 480

REGISTER_MAP == [Sub |-> 1, Bass |-> 2, Mid |-> 3, Harmony |-> 4]

\* chordName.toLowerCase().includes('minor') || ...includes('min'), for a
\* name that getChordMetadata resolves: the qualities of the chord table
\* that contain "min" in any case
NameHasMin(chordName) ==
    \E i \in 1..Len(chordName) :
        chordName[i] \in {"Minor", "Diminished", "Min7", "MinMaj7", "Min6"}

\* buildVoicing(chordName, style, octave): note numbers, or null
buildVoicing(chordName, style, octave) ==
    LET meta == getChordMetadata(chordName, octave)
    IN IF meta = null \/ Len(meta.midiNotes) = 0 THEN null
       ELSE LET root == meta.midiNotes[1]
            IN IF style = "Root Only" THEN <<root>>
               ELSE IF style = "Root + 5th" THEN <<root, root + 7>>
               ELSE IF style = "Root + 10th"
               THEN <<root, root + (IF NameHasMin(chordName) THEN 15 ELSE 16)>>
               ELSE meta.midiNotes

(***************************************************************************)
(* C27: every label that applyExtension returns is a chord label that      *)
(* getChordMetadata, and therefore buildVoicing and the exporter, can      *)
(* resolve to a voicing.                                                   *)
(***************************************************************************)
CexC27 ==
    (transformed # null /\ transformed # TypeError) =>
        /\ getChordMetadata(transformed, 3) # null
        /\ buildVoicing(transformed, "Triad", 3) # null

\* the bytes the loop of writeVLQ puts in front: 7 bits each, high bit set
RECURSIVE VLQFront(_)
VLQFront(value) ==
    IF value > 0
    THEN VLQFront(value \div 128) \o <<(value % 128) + 128>>
    ELSE <<>>

\* a mutant: the last byte has its high bit set too
writeVLQAllHigh(value) ==
    LET v == IF value < 0 THEN 0 ELSE value
    IN IF v <= 127 THEN <<v>>
       ELSE VLQFront(v \div 128) \o <<(v % 128) + 128>>

writeVLQ(value) ==
    LET v == IF value < 0 THEN 0 ELSE value
    IN IF v <= 127 THEN <<v>>
       ELSE VLQFront(v \div 128) \o <<v % 128>>

writeUint16(value) == <<(value \div 256) % 256, value % 256>>

writeUint32(value) ==
    <<(value \div 16777216) % 256, (value \div 65536) % 256,
      (value \div 256) % 256, value % 256>>

\* buildTempoEvent(bpm), bpm a positive integer: Math.round of the quotient
\* is the quotient plus one half, rounded down
buildTempoEvent(bpm) ==
    LET microsecondsPerBeat == (2 * 60000000 + bpm) \div (2 * bpm)
    IN <<0, 255, 81, 3,
         (microsecondsPerBeat \div 65536) % 256,
         (microsecondsPerBeat \div 256) % 256,
         microsecondsPerBeat % 256>>

buildEndOfTrack == <<0, 255, 47, 0>>

\* a mutant: every note-off carries the chord duration
ChordEventsLate(notes, chordDuration, velocity) ==
    Flatten([n \in 1..Len(notes) |->
                writeVLQ(0) \o <<144, notes[n] % 128, velocity % 128>>])
    \o Flatten([n \in 1..Len(notes) |->
                writeVLQ(chordDuration) \o <<128, notes[n] % 128, 0>>])

\* what one pass of the loop over the progression pushes for a voicing
ChordEvents(notes, chordDuration, velocity) ==
    Flatten([n \in 1..Len(notes) |->
                writeVLQ(0) \o <<144, notes[n] % 128, velocity % 128>>])
    \o Flatten([n \in 1..Len(notes) |->
                writeVLQ(IF n = 1 THEN chordDuration ELSE 0)
                    \o <<128, notes[n] % 128, 0>>])

\* a mutant: the length field counts the chunk header too
trackHeaderLong(trackData) ==
    <<77, 84, 114, 107>> \o writeUint32(Len(trackData) + 8)

trackHeader(trackData) ==
    <<77, 84, 114, 107>> \o writeUint32(Len(trackData))

\* a mutant: an empty progression is exported like any other
exportProgressionUnguarded(prog, opts) ==
    LET resolvedOctave ==
            IF opts.register # "" /\ opts.register \in DOMAIN REGISTER_MAP
            THEN REGISTER_MAP[opts.register]
            ELSE IF opts.octave # <<>> THEN opts.octave[1] ELSE 4
        chordDuration == opts.beatsPerChord * TICKS_PER_BEAT
        trackData ==
            buildTempoEvent(opts.bpm)
            \o Flatten([i \in 1..Len(prog) |->
                  LET notes == buildVoicing(prog[i], opts.voicingStyle, resolvedOctave)
                  IN IF notes = null \/ Len(notes) = 0 THEN <<>>
                     ELSE ChordEvents(notes, chordDuration, opts.velocity)])
            \o buildEndOfTrack
        header == <<77, 84, 104, 100>> \o writeUint32(6) \o writeUint16(0)
                     \o writeUint16(1) \o writeUint16(TICKS_PER_BEAT)
    IN header \o trackHeader(trackData) \o trackData

\* exportProgressionToMidi(progression, options); opts holds bpm,
\* beatsPerChord, velocity and voicingStyle with the defaults filled in,
\* register ("" if there is none) and octave (<<>> if there is none, else
\* the number in a sequence)
exportProgressionToMidi(prog, opts) ==
    LET resolvedOctave ==
            IF opts.register # "" /\ opts.register \in DOMAIN REGISTER_MAP
            THEN REGISTER_MAP[opts.register]
            ELSE IF opts.octave # <<>> THEN opts.octave[1] ELSE 4
        chordDuration == opts.beatsPerChord * TICKS_PER_BEAT
        trackData ==
            buildTempoEvent(opts.bpm)
            \o Flatten([i \in 1..Len(prog) |->
                  LET notes == buildVoicing(prog[i], opts.voicingStyle, resolvedOctave)
                  IN IF notes = null \/ Len(notes) = 0 THEN <<>>
                     ELSE ChordEvents(notes, chordDuration, opts.velocity)])
            \o buildEndOfTrack
        header == <<77, 84, 104, 100>> \o writeUint32(6) \o writeUint16(0)
                     \o writeUint16(1) \o writeUint16(TICKS_PER_BEAT)
    IN IF Len(prog) = 0 THEN <<>>
       ELSE header \o trackHeader(trackData) \o trackData

(***************************************************************************)
(* Exporter specification: chords are appended to the progression, and     *)
(* the progression is exported with the options chosen.                    *)
(***************************************************************************)
ExpLabels ==
    { <<"C", "Major">>, <<"A", "Minor">>, <<"G", "Dom7">>, <<"B", "5">>,
      <<"H", "Major">>, <<"C", "Sus4", "add2">> }

ExpOptions ==
    [ bpm : {3, 4, 7, 120, 512},
      beatsPerChord : {1, 2, 35},
      velocity : {100},
      register : {"", "Bass", "Harmony"},
      octave : {<<>>},
      voicingStyle : {"Triad", "Root Only", "Root + 10th"} ]

ExpInit ==
    /\ DetIdle
    /\ KTIdle
    /\ ModeIdle
    /\ SugIdle
    /\ ExtIdle
    /\ EngIdle
    /\ LockIdle
    /\ MidiIdle
    /\ CallIdle
    /\ VlqIdle
    /\ PlayIdle
    /\ progression = <<>>
    /\ options \in ExpOptions
    /\ buffer = NoBuffer

AppendToProgression(chordName) ==
    /\ Len(progression) < MaxProg
    /\ progression' = Append(progression, chordName)
    /\ buffer' = NoBuffer
    /\ UNCHANGED <<options, notExp>>

ExportMidi ==
    /\ buffer = NoBuffer
    /\ buffer' = exportProgressionToMidi(progression, options)
    /\ UNCHANGED <<progression, options, notExp>>

ExpNext ==
    \/ \E chordName \in ExpLabels : AppendToProgression(chordName)
    \/ ExportMidi

SpecExport == ExpInit /\ [][ExpNext]_vars

\* a progression has been exported
Exported == progression # <<>> /\ buffer # NoBuffer

\* 60,000,000 / bpm rounded to the nearest integer, halves up
RoundedTempo(bpm) ==
    (60000000 \div bpm) + (IF 2 * (60000000 % bpm) >= bpm THEN 1 ELSE 0)

(***************************************************************************)
(* C8: the buffer exported for a non-empty progression is a well-formed    *)
(* single-track file: 'MThd', length 6, format 0, 1 track, 480 ticks per   *)
(* beat in bytes 0-13; 'MTrk' at offset 14; at offset 18 the 32-bit        *)
(* big-endian track length, equal to the buffer length - 22; then the      *)
(* tempo meta event with round(60,000,000 / bpm) in 3 big-endian bytes     *)
(* (when it fits in 3 bytes); and the end-of-track meta event at the end.  *)
(***************************************************************************)
ThmC8 ==
    Exported =>
        /\ Len(buffer) >= 33
        /\ \A i \in 1..Len(buffer) : buffer[i] \in 0..255
        /\ SubSeq(buffer, 1, 14) = <<77, 84, 104, 100, 0, 0, 0, 6, 0, 0, 0, 1, 1, 224>>
        /\ SubSeq(buffer, 15, 18) = <<77, 84, 114, 107>>
        /\ buffer[19] * 16777216 + buffer[20] * 65536 + buffer[21] * 256 + buffer[22]
              = Len(buffer) - 22
        /\ SubSeq(buffer, 23, 26) = <<0, 255, 81, 3>>
        /\ RoundedTempo(options.bpm) < 16777216 =>
              buffer[27] * 65536 + buffer[28] * 256 + buffer[29] = RoundedTempo(options.bpm)
        /\ SubSeq(buffer, Len(buffer) - 3, Len(buffer)) = <<0, 255, 47, 0>>

\* two chords have been exported at 512 beats per minute, where the tempo
\* quotient ends in one half
WitC8 ==
    /\ Exported
    /\ Len(progression) = 2
    /\ options.bpm = 512
    /\ Len(buffer) > 33
    /\ buffer[27] * 65536 + buffer[28] * 256 + buffer[29] = 117188

\* reading a delta-time at pos: its value and the position behind it
RECURSIVE ReadDelta(_, _, _)
ReadDelta(bytes, pos, acc) ==
    IF bytes[pos] >= 128
    THEN ReadDelta(bytes, pos + 1, acc * 128 + (bytes[pos] - 128))
    ELSE [value |-> acc * 128 + bytes[pos], next |-> pos + 1]

\* reading the channel events from pos up to the first meta event
RECURSIVE ReadEvents(_, _)
ReadEvents(bytes, pos) ==
    IF pos > Len(bytes) THEN <<>>
    ELSE LET dt == ReadDelta(bytes, pos, 0)
         IN IF bytes[dt.next] = 255 THEN <<>>
            ELSE << [delta |-> dt.value, status |-> bytes[dt.next],
                     note |-> bytes[dt.next + 1]] >>
                 \o ReadEvents(bytes, dt.next + 3)

\* the note events of the exported track, behind the tempo event
TrackEvents == ReadEvents(buffer, 30)

\* the tick at which event i of a track happens
RECURSIVE TickOf(_, _)
TickOf(events, i) ==
    IF i = 0 THEN 0 ELSE TickOf(events, i - 1) + events[i].delta

\* the voicing of a chord of the progression under the options chosen
VoicingOf(chordName) ==
    buildVoicing(chordName, options.voicingStyle,
                 IF options.register = "Bass" THEN 2 ELSE 4)

\* the note events the progression stands for
ExpectedEvents ==
    Flatten([i \in 1..Len(progression) |->
        LET v == VoicingOf(progression[i])
        IN IF v = null THEN <<>>
           ELSE [n \in 1..Len(v) |-> [delta |-> 0, status |-> 144, note |-> v[n]]]
                \o [n \in 1..Len(v) |->
                      [delta |-> IF n = 1 THEN options.beatsPerChord * 480 ELSE 0,
                       status |-> 128, note |-> v[n]]]])

(***************************************************************************)
(* C9: for each chord in order the track holds one note-on (0x90) per      *)
(* voicing note, all with delta-time 0, then one note-off (0x80) for each  *)
(* of the same notes, the first with delta-time beatsPerChord * 480 and    *)
(* the rest with 0; so there are as many note-offs as note-ons, every      *)
(* note-on is closed by a note-off of its note beatsPerChord * 480 ticks   *)
(* later, and ['C Major'] in the default voicing yields 3 of each.         *)
(***************************************************************************)
ThmC9 ==
    Exported =>
        LET events == TrackEvents
            ons == {i \in 1..Len(events) : events[i].status = 144}
            offs == {i \in 1..Len(events) : events[i].status = 128}
        IN /\ events = ExpectedEvents
           /\ Cardinality(ons) = Cardinality(offs)
           /\ \A i \in ons : \E j \in offs :
                 /\ j > i
                 /\ events[j].note = events[i].note
                 /\ TickOf(events, j) - TickOf(events, i) = options.beatsPerChord * 480
           /\ (progression = << <<"C", "Major">> >> /\ options.voicingStyle = "Triad")
                 => (Cardinality(ons) = 3 /\ Cardinality(offs) = 3)

\* C Major alone has been exported in the default voicing, two beats long
WitC9 ==
    /\ Exported
    /\ progression = << <<"C", "Major">> >>
    /\ options.voicingStyle = "Triad"
    /\ options.beatsPerChord = 2
    /\ Len(TrackEvents) = 6
    /\ TrackEvents[4].delta = 960

(***************************************************************************)
(* C28: in the exported track the k-th chord of the progression (counting  *)
(* from 0) has its note-ons at tick k * beatsPerChord * 480: every label   *)
(* of the progression contributes its note events, and none is dropped or  *)
(* moved to another position in time.                                      *)
(***************************************************************************)
CexC28 ==
    Exported =>
        LET events == TrackEvents
            ons == {i \in 1..Len(events) : events[i].status = 144}
            chordDuration == options.beatsPerChord * 480
        IN \A k \in 0..(Len(progression) - 1) :
              /\ \E i \in ons : TickOf(events, i) = k * chordDuration
              /\ VoicingOf(progression[k + 1]) # null =>
                    {events[i].note : i \in {j \in ons : TickOf(events, j) = k * chordDuration}}
                       = Range(VoicingOf(progression[k + 1]))

(***************************************************************************)
(* Playback.                                                               *)
(***************************************************************************)
\* the octave playProgression maps a register to
baseOctave(register) ==
    IF register = "Sub" THEN 1
    ELSE IF register = "Bass" THEN 2
    ELSE IF register = "Mid" THEN 3
    ELSE IF register = "Harmony" THEN 5
    ELSE 4

\* the timers one chord schedules when it starts at currentTime: for each
\* note the note-on (velocity 96, 5 ms apart) and the note-off (velocity 64,
\* at the end of the chord); delays are in ms, as exact fractions over bpm
ChordTimers(notes, currentTime, chordDurationMs, bpm) ==
    Flatten([n \in 1..Len(notes) |->
        << [delay |-> [num |-> currentTime + 5 * (n - 1) * bpm, den |-> bpm],
            message |-> <<144, notes[n], 96>>],
           [delay |-> [num |-> currentTime + chordDurationMs, den |-> bpm],
            message |-> <<128, notes[n], 64>>] >>])

\* the forEach of playProgression from chord i on; a chord that
\* getChordMetadata does not resolve schedules nothing and takes no time
RECURSIVE PlayFrom(_, _, _, _, _, _)
PlayFrom(prog, i, currentTime, chordDurationMs, bpm, register) ==
    IF i > Len(prog)
    THEN << [delay |-> [num |-> currentTime + 100 * bpm, den |-> bpm],
             message |-> <<>>] >>
    ELSE LET meta == getChordMetadata(prog[i], baseOctave(register))
         IN IF meta = null
            THEN PlayFrom(prog, i + 1, currentTime, chordDurationMs, bpm, register)
            ELSE ChordTimers(meta.midiNotes, currentTime, chordDurationMs, bpm)
                 \o PlayFrom(prog, i + 1, currentTime + chordDurationMs,
                             chordDurationMs, bpm, register)

\* playProgression(progression, bpm, beatsPerChord, register) with an output
\* set: the timers it leaves in activeTimeouts, the completion timer last
playProgression(prog, bpm, beatsPerChord, register) ==
    IF Len(prog) = 0 THEN <<>>
    ELSE PlayFrom(prog, 1, 0, beatsPerChord * 60000, bpm, register)

(***************************************************************************)
(* Playback specification: a progression and a register are chosen; the    *)
(* progression is played, stopped, runs to its end, and is exported.       *)
(***************************************************************************)
PlayRegisters == {"Sub", "Bass", "Mid", "Harmony", ""}

PlayOptions ==
    [ bpm : {120},
      beatsPerChord : {2},
      velocity : {100},
      register : PlayRegisters,
      octave : {<<>>},
      voicingStyle : {"Triad"} ]

PlayProgressions ==
    UNION {[1..n -> ExpLabels] : n \in 1..MaxProg}

PlayInit ==
    /\ DetIdle
    /\ KTIdle
    /\ ModeIdle
    /\ SugIdle
    /\ ExtIdle
    /\ EngIdle
    /\ LockIdle
    /\ MidiIdle
    /\ CallIdle
    /\ VlqIdle
    /\ PlayIdle
    /\ progression \in PlayProgressions
    /\ options \in PlayOptions
    /\ buffer = NoBuffer

Play ==
    /\ isPlaying' = TRUE
    /\ activeTimeouts' = playProgression(progression, options.bpm,
                                         options.beatsPerChord, options.register)
    /\ UNCHANGED <<notPlay>>

\* stopPlayback while playing: the timers are cleared; the All Notes Off it
\* sends to the output leaves the state alone
stopPlayback ==
    /\ isPlaying
    /\ isPlaying' = FALSE
    /\ activeTimeouts' = <<>>
    /\ UNCHANGED <<notPlay>>

\* the completion timer fires
PlaybackComplete ==
    /\ isPlaying
    /\ isPlaying' = FALSE
    /\ activeTimeouts' = <<>>
    /\ UNCHANGED <<notPlay>>

ExportPlayed ==
    /\ buffer = NoBuffer
    /\ buffer' = exportProgressionToMidi(progression, options)
    /\ UNCHANGED <<progression, options, notExp>>

PlayNext ==
    \/ Play
    \/ stopPlayback
    \/ PlaybackComplete
    \/ ExportPlayed

SpecPlayback == PlayInit /\ [][PlayNext]_vars

\* the notes of the note-ons playback has scheduled, in order
PlayedNotes ==
    [i \in 1..Len(SelectSeq(activeTimeouts, LAMBDA t : t.message # <<>> /\ t.message[1] = 144))
        |-> SelectSeq(activeTimeouts,
                      LAMBDA t : t.message # <<>> /\ t.message[1] = 144)[i].message[2]]

\* the notes of the note-ons of the exported track, in order
ExportedNotes ==
    [i \in 1..Len(SelectSeq(TrackEvents, LAMBDA e : e.status = 144))
        |-> SelectSeq(TrackEvents, LAMBDA e : e.status = 144)[i].note]

(***************************************************************************)
(* C30: playback and export voice a progression in the same octave: for    *)
(* every register name (Sub, Bass, Mid, Harmony) playProgression and       *)
(* exportProgressionToMidi resolve the same base octave, and hence the     *)
(* same note numbers, for each chord.                                      *)
(***************************************************************************)
CexC30 ==
    (isPlaying /\ buffer # NoBuffer /\ options.register \in DOMAIN REGISTER_MAP) =>
        /\ baseOctave(options.register) = REGISTER_MAP[options.register]
        /\ PlayedNotes = ExportedNotes

(***************************************************************************)
(* Delta-time specification: a delta-time is built from 7-bit groups, the  *)
(* most significant first, its sign is changed, and it is encoded anew.    *)
(***************************************************************************)
\* the 7-bit groups a delta-time is built from
DeltaGroups == {0, 1, 64, 127}

DeltaInit ==
    /\ DetIdle
    /\ KTIdle
    /\ ModeIdle
    /\ SugIdle
    /\ ExtIdle
    /\ ExpIdle
    /\ EngIdle
    /\ LockIdle
    /\ MidiIdle
    /\ CallIdle
    /\ PlayIdle
    /\ deltaTime = 0
    /\ deltaBytes = writeVLQ(0)

\* the delta-time gets one more group, staying below 2^28
ShiftIn(group) ==
    /\ deltaTime >= 0
    /\ deltaTime <= (2^28 - 1 - group) \div 128
    /\ deltaTime' = deltaTime * 128 + group
    /\ deltaBytes' = writeVLQ(deltaTime')
    /\ UNCHANGED notVlq

Negate ==
    /\ deltaTime' = -deltaTime
    /\ deltaBytes' = writeVLQ(deltaTime')
    /\ UNCHANGED notVlq

DeltaNext ==
    \/ \E group \in DeltaGroups : ShiftIn(group)
    \/ Negate

SpecDelta == DeltaInit /\ [][DeltaNext]_vars

\* the value of a variable-length quantity as a reader decodes it: the low
\* 7 bits of each byte, the first byte's the most significant
DecodeVLQ(bytes) ==
    LET Weight(i) == IF i = Len(bytes) THEN 1
                     ELSE IF i = Len(bytes) - 1 THEN 128
                     ELSE IF i = Len(bytes) - 2 THEN 128 * 128
                     ELSE 128 * 128 * 128
    IN (IF Len(bytes) >= 1 THEN (bytes[1] % 128) * Weight(1) ELSE 0)
       + (IF Len(bytes) >= 2 THEN (bytes[2] % 128) * Weight(2) ELSE 0)
       + (IF Len(bytes) >= 3 THEN (bytes[3] % 128) * Weight(3) ELSE 0)
       + (IF Len(bytes) >= 4 THEN (bytes[4] % 128) * Weight(4) ELSE 0)

(***************************************************************************)
(* C25: writeVLQ encodes every delta-time v with 0 <= v < 2^28 as 1 to 4   *)
(* bytes, most significant 7-bit group first, with the high bit set on     *)
(* every byte except the last, so that decoding the bytes gives back v; a  *)
(* negative value is encoded as the single byte 0.                         *)
(***************************************************************************)
ThmC25 ==
    /\ deltaTime < 0 => deltaBytes = <<0>>
    /\ deltaTime >= 0 =>
          /\ Len(deltaBytes) \in 1..4
          /\ \A i \in 1..Len(deltaBytes) : deltaBytes[i] \in 0..255
          /\ \A i \in 1..(Len(deltaBytes) - 1) : deltaBytes[i] >= 128
          /\ deltaBytes[Len(deltaBytes)] < 128
          /\ DecodeVLQ(deltaBytes) = deltaTime

\* the largest delta-time of the claim, in four bytes
WitC25 ==
    /\ deltaTime = 2^28 - 1
    /\ deltaBytes = <<255, 255, 255, 127>>

\* a negative delta-time, encoded as the byte 0
WitC25Negative ==
    /\ deltaTime < -127
    /\ deltaBytes = <<0>>

(***************************************************************************)
(* Empty-input specification: the key tracker, the modal context and the   *)
(* exporter side by side, each holding at most MaxEmpty chords, so that    *)
(* every function is called on an empty input as well as on a filled one.  *)
(* called records which functions have returned since their input last     *)
(* changed.                                                                *)
(***************************************************************************)
EmptyLabels == { <<"C", "Major">>, <<"H", "Major">> }

EmptyInit ==
    /\ DetIdle
    /\ KTIdle
    /\ SugIdle
    /\ ExtIdle
    /\ EngIdle
    /\ LockIdle
    /\ MidiIdle
    /\ CallIdle
    /\ VlqIdle
    /\ PlayIdle
    /\ chordHistory = <<>>
    /\ modal = null
    /\ progression = <<>>
    /\ options \in {o \in ExpOptions : o.bpm = 120 /\ o.beatsPerChord = 2
                                        /\ o.voicingStyle = "Triad"}
    /\ buffer = NoBuffer

\* keyDetector.addChord(label)
TrackChord(label) ==
    /\ Len(accepted) < MaxEmpty
    /\ recentChords' = addChord(recentChords, label)
    /\ accepted' = IF ParsesAsChord(label) THEN Append(accepted, label) ELSE accepted
    /\ keys' = <<>>
    /\ called' = [called EXCEPT !.detect = FALSE]
    /\ UNCHANGED <<detVars, modeVars, sugVars, extVars, expVars, engVars, lockVars, midiVars, vlqVars, playVars>>

\* keyDetector.detect()
DetectKeys ==
    /\ keys' = detect(recentChords)
    /\ called' = [called EXCEPT !.detect = TRUE]
    /\ UNCHANGED <<recentChords, accepted>>
    /\ UNCHANGED <<detVars, modeVars, sugVars, extVars, expVars, engVars, lockVars, midiVars, vlqVars, playVars>>

\* keyDetector.reset()
ResetTracker ==
    /\ recentChords' = <<>>
    /\ accepted' = <<>>
    /\ keys' = <<>>
    /\ called' = [called EXCEPT !.detect = FALSE]
    /\ UNCHANGED <<detVars, modeVars, sugVars, extVars, expVars, engVars, lockVars, midiVars, vlqVars, playVars>>

\* chordHistory.push(label)
HearChord(label) ==
    /\ Len(chordHistory) < MaxEmpty
    /\ chordHistory' = Append(chordHistory, label)
    /\ modal' = null
    /\ called' = [called EXCEPT !.detectMode = FALSE]
    /\ UNCHANGED <<detVars, ktVars, sugVars, extVars, expVars, engVars, lockVars, midiVars, vlqVars, playVars>>

\* detectModeFromChords(chordHistory)
DetectMode ==
    /\ modal' = detectModeFromChords(chordHistory)
    /\ called' = [called EXCEPT !.detectMode = TRUE]
    /\ UNCHANGED chordHistory
    /\ UNCHANGED <<detVars, ktVars, sugVars, extVars, expVars, engVars, lockVars, midiVars, vlqVars, playVars>>

\* bank.push(label)
AddToBank(label) ==
    /\ Len(progression) < MaxEmpty
    /\ progression' = Append(progression, label)
    /\ buffer' = NoBuffer
    /\ called' = [called EXCEPT !.export = FALSE]
    /\ UNCHANGED options
    /\ UNCHANGED <<detVars, ktVars, modeVars, sugVars, extVars, engVars, lockVars, midiVars, vlqVars, playVars>>

\* exportProgressionToMidi(progression, options)
ExportBank ==
    /\ buffer' = exportProgressionToMidi(progression, options)
    /\ called' = [called EXCEPT !.export = TRUE]
    /\ UNCHANGED <<progression, options>>
    /\ UNCHANGED <<detVars, ktVars, modeVars, sugVars, extVars, engVars, lockVars, midiVars, vlqVars, playVars>>

EmptyNext ==
    \/ \E label \in EmptyLabels : TrackChord(label)
    \/ DetectKeys
    \/ ResetTracker
    \/ \E label \in EmptyLabels : HearChord(label)
    \/ DetectMode
    \/ \E label \in EmptyLabels : AddToBank(label)
    \/ ExportBank

SpecEmpty == EmptyInit /\ [][EmptyNext]_vars

(***************************************************************************)
(* C13: insufficient input gives an empty result and no error: the export  *)
(* of an empty progression is a buffer of length zero, detect() on an      *)
(* empty history (a fresh tracker, or after reset() with no successful     *)
(* addChord since) is the empty sequence, and detectModeFromChords of an   *)
(* empty history is none.                                                  *)
(***************************************************************************)
ThmC13 ==
    /\ (called.export /\ progression = <<>>) => (buffer # NoBuffer /\ Len(buffer) = 0)
    /\ (called.detect /\ accepted = <<>>) => keys = <<>>
    /\ (called.detectMode /\ chordHistory = <<>>) => modal = null

\* all three functions have returned on an empty input
WitC13 ==
    /\ called.export /\ progression = <<>> /\ buffer = <<>>
    /\ called.detect /\ accepted = <<>> /\ recentChords = <<>> /\ keys = <<>>
    /\ called.detectMode /\ chordHistory = <<>> /\ modal = null

(***************************************************************************)
(* Detector specification.  The first input is what getActiveNotes()       *)
(* hands over, distinct notes in ascending order; the same notes are then  *)
(* moved by octaves and reordered, and detected again.                     *)
(***************************************************************************)
DetNotes == {n \in 0..MaxNote : n % 12 \in DetPitchClasses}

IsAscending(s) == \A i \in 1..(Len(s) - 1) : s[i] < s[i + 1]

DetInit ==
    /\ KTIdle
    /\ ModeIdle
    /\ SugIdle
    /\ ExtIdle
    /\ ExpIdle
    /\ EngIdle
    /\ LockIdle
    /\ MidiIdle
    /\ CallIdle
    /\ VlqIdle
    /\ PlayIdle
    /\ activeNotes \in {s \in UNION {[1..n -> DetNotes] : n \in 3..MaxNotes} : IsAscending(s)}
    /\ chord0 = detectChord(activeNotes)
    /\ chord = chord0

\* note i is moved d semitones (a whole octave), staying a valid note number
MoveOctave(i, d) ==
    /\ activeNotes[i] + d \in 0..MaxNote
    /\ activeNotes' = [activeNotes EXCEPT ![i] = @ + d]
    /\ chord' = detectChord(activeNotes')
    /\ UNCHANGED <<chord0, notDet>>

\* notes i and i+1 change places
Reorder(i) ==
    /\ activeNotes' = [activeNotes EXCEPT ![i] = activeNotes[i + 1],
                                          ![i + 1] = activeNotes[i]]
    /\ chord' = detectChord(activeNotes')
    /\ UNCHANGED <<chord0, notDet>>

DetNext ==
    \/ \E i \in 1..Len(activeNotes), d \in {-12, 12} : MoveOctave(i, d)
    \/ \E i \in 1..(Len(activeNotes) - 1) : Reorder(i)

SpecDetect == DetInit /\ [][DetNext]_vars

(***************************************************************************)
(* C1: an input of at least 3 notes whose pitch classes form a chord table *)
(* pattern keeps its label when any of its notes are moved by whole        *)
(* octaves (within the note range) and when it is reordered.               *)
(***************************************************************************)
ThmC1 == (Len(activeNotes) >= 3 /\ chord0 # null) => chord = chord0

\* a recognised chord whose notes have left ascending order, one of them
\* doubling another's pitch class after moves
WitC1 ==
    /\ chord0 # null
    /\ chord = chord0
    /\ ~IsAscending(activeNotes)
    /\ \E i, j \in 1..Len(activeNotes) : i # j /\ activeNotes[i] = activeNotes[j]
    /\ \E i \in 1..Len(activeNotes) : activeNotes[i] >= 12

\* the intervals, as a set, of a set of pitch classes above one of them
IntervalSet(pcs, root) == {(pc - root + 12) % 12 : pc \in pcs}

\* the quality the chord table gives a set of intervals, or null
QualityOf(intervals) ==
    IF \E i \in 1..Len(CHORD_INTERVALS) :
          /\ Range(CHORD_INTERVALS[i].key) = intervals
          /\ Len(CHORD_INTERVALS[i].key) = Cardinality(intervals)
    THEN CHORD_INTERVALS[CHOOSE i \in 1..Len(CHORD_INTERVALS) :
                            /\ Range(CHORD_INTERVALS[i].key) = intervals
                            /\ Len(CHORD_INTERVALS[i].key) = Cardinality(intervals)].val
    ELSE null

(***************************************************************************)
(* C21: detectChord names a note set after the lowest of its pitch classes *)
(* whose interval set, taken relative to it, is in the chord table, with   *)
(* the quality the table gives that set, whichever note sounds lowest; if  *)
(* no pitch class matches it returns none.                                 *)
(***************************************************************************)
ThmC21 ==
    Len(activeNotes) >= 3 =>
        LET pcs == {activeNotes[i] % 12 : i \in 1..Len(activeNotes)}
            matching == {root \in pcs : QualityOf(IntervalSet(pcs, root)) # null}
        IN IF matching = {} THEN chord = null
           ELSE LET first == CHOOSE root \in matching : \A r \in matching : root <= r
                IN chord = <<NOTE_NAMES[first + 1]>> \o QualityOf(IntervalSet(pcs, first))

\* C, E, G, A out of order with A sounding lowest: both C Maj6 and A Min7
\* fit, and the label is C Maj6
WitC21 ==
    /\ {activeNotes[i] % 12 : i \in 1..Len(activeNotes)} = {0, 4, 7, 9}
    /\ \E i \in 1..Len(activeNotes) :
          /\ activeNotes[i] % 12 = 9
          /\ \A j \in 1..Len(activeNotes) : activeNotes[i] <= activeNotes[j]
    /\ ~IsAscending(activeNotes)
    /\ QualityOf(IntervalSet({0, 4, 7, 9}, 9)) = <<"Min7">>
    /\ chord = <<"C", "Maj6">>

(***************************************************************************)
(* C14: detectChord returns none for every input that holds fewer than 3   *)
(* distinct note numbers, whatever the length of the input sequence.       *)
(***************************************************************************)
CexC14 == Cardinality(Range(activeNotes)) < 3 => chord = null

====
